---- MODULE Spec2Model ----
(***************************************************************************)
(* Verification model of the alethic-ism-core-go runtime core:             *)
(*   - pkg/cache      LocalCache (map + min-heap by evictAt, cleanup loop) *)
(*   - pkg/cache      CachedBackend (cache-aside wrapper)                  *)
(*   - pkg/windowing  BlockStore (sliding window correlation)              *)
(*   - pkg/routing    NATS Route (connect / publish / subscribe)           *)
(* Time is an integer clock; time.Now() inside a step reads `clock`.       *)
(* Every subsystem has its own specification over its own variables; the   *)
(* variables of the other subsystems keep their initial values.            *)
(***************************************************************************)
EXTENDS Integers, Sequences, FiniteSets, TLC

\* ------------------------------------------------------------------ bounds
MaxClock == 2
MaxEntries == 3
MaxValue == 2
DefaultTTL == 2

\* Go's nil (a nil pointer, a nil value)
Nil == 0

\* GoDiv2 is Go's integer division by two (truncation toward zero).
GoDiv2(x) == IF x >= 0 THEN x \div 2 ELSE 0 - ((0 - x) \div 2)

IsPrefix(p, s) == Len(s) >= Len(p) /\ SubSeq(s, 1, Len(p)) = p

RECURSIVE SetToSeq(_)
SetToSeq(S) ==
  IF S = {} THEN <<>>
  ELSE LET x == CHOOSE y \in S : \A z \in S : y <= z
       IN <<x>> \o SetToSeq(S \ {x})

\* =================================================================== cache
CacheKeys == {<<"a">>, <<"a", "b">>}
CachePrefixes == {<<"a">>, <<"a", "b">>}
CacheValues == 1..MaxValue
CacheTTLs == {0, 1}
EntryIds == 1..MaxEntries
GcThreads == {"t1", "t2"}
GcOrder == <<"t1", "t2">>
GcKeys == {<<"a">>}
Readers == {"r1", "r2"}
BackendCalls == {[method |-> "Find", args |-> <<"x">>],
                 [method |-> "Find", args |-> <<"x", "f">>]}

VARIABLES
  clock,       \* wall clock
  entries,     \* cacheEntry objects by address: key, value, evictAt, index
  items,       \* LocalCache.items: key -> entry address
  itemsHeap,   \* LocalCache.itemsHeap: sequence of entry addresses
  closed,      \* LocalCache.stopChan: "open", "closed", or "panic" (closed twice)
  cleanPc,     \* the cleanup goroutine: "idle" at its select, inside evictFn, or "exited"
  cleanNow,    \* evictFn's local `now`
  cleanItem,   \* evictFn's local `item`
  lastSet,     \* history: per key, the most recent Set not followed by a removal
  gcPc,        \* GetCreateOrUpdate callers: position
  gcKey,       \* GetCreateOrUpdate callers: key argument
  gcTtl,       \* GetCreateOrUpdate callers: ttl argument
  gcEntry,     \* GetCreateOrUpdate callers: local `entry` (Nil when !exists)
  gcRet,       \* GetCreateOrUpdate callers: what the last call returned
  fetchOnLive  \* history: fetchFunc was invoked for a key Get would have hit

VARIABLES
  db,          \* the wrapped backend: version of the stored row (what a fetch returns)
  keyRegistry, \* CachedBackend.keyRegistry: "<method>:<firstArg>" -> set of cache keys
  rdPc,        \* wrapper reads: position inside GetCached
  rdCall,      \* wrapper reads: the (method, args) of the call
  rdVal,       \* wrapper reads: the fetched result not yet stored
  rdRet,       \* wrapper reads: what the last read returned
  rdFloor,     \* history: the version the last invalidation before the read's start followed
  wrPc,        \* the writer: "idle", "written" (backend write done), "keyed" (inside
               \* InvalidateMethod), "ranging" (inside InvalidateMethodPrefix)
  wrCall,      \* the writer: the (method, args) it invalidates
  invFloor,    \* history: per cache key, the version its last invalidation followed
  wrRange      \* the writer inside InvalidateMethodPrefix's keySet.Range: the keys the
               \* set held when the Range began, the keys visited so far, and
               \* (history) the entries cached for the prefix when the call began

VARIABLES
  blocks,       \* BlockStore.blocks: key -> Block (key, partsBySource, evictionTime, heapIndex)
  strays,       \* Block objects store.blocks does not hold (replaced or deleted there)
                \* that the heap or a goroutine still references, by a name of their own
  blockHeap,    \* BlockStore.heap: sequence of blocks (the key of a block of the map,
                \* the name of a stray)
  parts,        \* BlockPart objects by address: Data, ExpireAt, JoinCount
  lastAccessed, \* BlockStore.lastAccessed
  shutdownCh,   \* BlockStore.shutdownCh: "open", "closed", or "panic": the process has
                \* ended (the channel closed twice, a data race the runtime aborts on)
  evPc,         \* the eviction goroutine: "idle" at its select, "waiting" for the mutex
                \* inside evictFn, at a statement of its loop, or "exited"
  evNow,        \* evictFn's local `now`, read before the mutex is taken
  addRes,       \* history: what the last AddData call did
  evictLog,     \* history: what the last completed pass of evictFn removed
  blockPartMaxJoinCount \* BlockStore.blockPartMaxJoinCount, as given to NewBlockStore

blockVars == <<blocks, strays, blockHeap, parts, lastAccessed, shutdownCh, evPc, evNow,
               addRes, evictLog, blockPartMaxJoinCount>>

VARIABLES
  cfg,       \* Route.Config: which optional fields are set (made = FALSE before NewRoute)
  nc,        \* Route.nc: "nil", "connected", "draining" (Drain has been called on it
             \* and is at work), "lost" (broker gone) or "closed"
  js,        \* Route.js: "nil" or "ready"
  stream,    \* the broker holds the stream Config.Name over [Config.Subject]
  sub,       \* Route.sub: how it was made, on which connection, and whether it is
             \* still subscribed
  orphans,   \* subscriptions still active at the broker that Route.sub no longer
             \* names, counted by the connection that made them
  conns,     \* broker connections opened so far
  jsUsed,    \* history: a method of the JetStream context has been called
  lastCall,  \* history: the call on the route that returned last (none while a call
             \* is between its Connect and its send): its message, payload
             \* and result
  pend       \* the call under way: a Publish, PublishWithSuffix, Request or
             \* Subscribe that is back from its Connect and has yet to send or
             \* subscribe, or a Drain between its reads of r.nc: "drain" (r.nc was
             \* not nil), "drainCall" (r.nc.IsConnected() was true)

VARIABLES
  enableChannels, \* Route.Options.EnableChannels
  callback,       \* Route.Callback is set (not nil)
  handed,         \* history: what the pull goroutine did with its last message:
                  \* "none", "callback", "channel" or "skipped"
  ctxDone,        \* the ctx handed to Subscribe has been cancelled
  fetcher,        \* the goroutines subscribePull started, each at: "none", "check",
                  \* "fetch", "deliver", "call", inside GetCreateOrUpdate ("read", "hit",
                  \* "checked"), "send", "exited", or "panic"
  batch,          \* per goroutine: messages of the fetched batch still to hand over
  fetchSub,       \* per goroutine: its `sub`: "none", "current" (it is Route.sub),
                  \* "orphan" (active, Route.sub names another), "closed", and the
                  \* connection that made it
  msgChan,        \* per goroutine: the channel publishWithChannel got for the message
  chanLen         \* per channel: the messages it buffers (capacity 1)

VARIABLES
  stDb,        \* the state backend's tables: state row, column definitions, attributes, key definitions
  stCache,     \* the cache of the cached state backend: cache key -> cached result, and
               \* (history) the number of the write it was fetched after
  stRegistry,  \* its keyRegistry, for the methods it invalidates by prefix
  stRd,        \* the goroutines inside a read method: position ("idle", "loaded",
               \* "orphaned", "keyed", "missed", "fetched"), call, fetched value
  stWr,        \* the goroutine inside a write method: position ("idle", or the kind
               \* of invalidation it is at: "method", "prefix", "ranging"), the
               \* invalidations still to make, the keys of the Range
  stHist       \* history: the number of writes that changed the tables, and per read
               \* the last returned write method that changed its result

stateVars == <<stDb, stCache, stRegistry, stRd, stWr, stHist>>

VARIABLES
  methodConfigs, \* CachedBackend.methodConfigs: the MethodConfig of the method, if any
  mcRd,          \* the configured read in flight: where it is, its path, the ttl it
                 \* hands to cache.Set and the MethodConfig it started under
  mcLast         \* history: the last configured read, what it did with the cache

methodVars == <<methodConfigs, mcRd, mcLast>>

VARIABLES
  fetches,   \* calls of the fetch function of the memoised method so far
  memo,      \* history: the result the last fetch cached, until when, and whether
             \* InvalidateMethod has run since
  memoRd,    \* the memoised read in flight: where it is and what it fetched
  memoLast   \* history: the last memoised read, what it returned and what was due

memoVars == <<fetches, memo, memoRd, memoLast>>

VARIABLES
  routes,       \* Config.MessageConfig.Routes, in the order of the file
  selectorMap,  \* Config.selectorMap: selector -> index of the route in Routes
  subjectMap,   \* Config.subjectMap: subject -> index of the route in Routes
  regLast       \* history: the last lookup on the Config and what it returned

registryVars == <<routes, selectorMap, subjectMap, regLast>>

VARIABLES
  joinLast      \* history: the last two parts of one block handed to JoinCombine, in
                \* both orders, and the two results

joinVars == <<joinLast>>

VARIABLES
  mu,        \* BlockStore.mu: "free", or the goroutine that holds it
  addPc,     \* each AddData caller: "idle", "locked" (in the loop), "callback"
  addLeft    \* the combine/callback invocations the caller has still to make

muVars == <<mu, addPc, addLeft>>

VARIABLES
  usePc,     \* each caller of the Route: "idle", "connected" (Connect returned nil), "done"
  useOp,     \* the method it called
  useOut     \* how its call ended

useVars == <<usePc, useOp, useOut>>

VARIABLES
  ops        \* the goroutines inside a BlockStore operation, statement by statement:
             \* the AddData caller (addPc, its arguments, its local `block` and `now`),
             \* the caller of the exported GetOrAddBlock (getPc, its key, its `block`),
             \* the caller of EvictExpiredBlocks (exPc, its `now`), and evictFn's `blk`

opsVars == <<ops>>
\* the wrappers of the repositories, the routing table, the combine functions
wrapperVars == <<stateVars, methodVars, memoVars, registryVars, joinVars, muVars,
                 useVars, opsVars>>

pullRest == <<enableChannels, callback, handed, ctxDone, batch, fetchSub, msgChan, chanLen>>
pullVars == <<fetcher, pullRest>>

routeVars == <<cfg, nc, js, stream, sub, orphans, conns, jsUsed, lastCall, pend, pullVars>>

backendVars == <<db, keyRegistry, rdPc, rdCall, rdVal, rdRet, rdFloor, wrPc, wrCall, invFloor, wrRange>>

cacheVars == <<clock, entries, items, itemsHeap, closed, cleanPc, cleanNow,
               cleanItem, lastSet>>
gcVars == <<gcPc, gcKey, gcTtl, gcEntry, gcRet, fetchOnLive>>
gcRest == <<gcPc, gcKey, gcTtl, gcRet, fetchOnLive>>

\* everything a LocalCache operation called directly leaves alone
cacheOthers == <<gcRest, backendVars, blockVars, routeVars, wrapperVars>>
\* everything a GetCreateOrUpdate step leaves alone
gcOthers == <<lastSet, closed, cleanPc, cleanNow, backendVars, blockVars, routeVars,
              wrapperVars>>
\* everything a CachedBackend step leaves alone
backendOthers == <<closed, cleanPc, cleanNow, gcRest, blockVars, routeVars, wrapperVars>>
\* everything a BlockStore operation leaves alone
blockOthers == <<entries, items, itemsHeap, closed, cleanPc, cleanNow, cleanItem, lastSet,
                 gcVars, backendVars, routeVars, wrapperVars, blockPartMaxJoinCount>>

\* everything a Route operation leaves alone
serviceVars == <<cacheVars, gcVars, backendVars, blockVars, wrapperVars>>
routeOthers == <<serviceVars, pullVars>>
\* everything a step of the pull goroutine or of its channel leaves alone
pullOthers == <<entries, items, itemsHeap, closed, cleanPc, cleanNow, cleanItem, lastSet,
                gcVars, backendVars, blockVars, wrapperVars,
                cfg, nc, js, stream, sub, orphans, conns, jsUsed, lastCall, pend>>
\* everything a step of the goroutine inside Route.Channels leaves alone
channelRest == <<closed, cleanPc, cleanNow, lastSet, gcRest, backendVars, blockVars,
                 wrapperVars, cfg, nc, js, stream, sub, orphans, conns, jsUsed, lastCall,
                 pend, enableChannels, callback, ctxDone, fetchSub>>
channelOthers == <<channelRest, handed>>

\* everything a call on the cached state backend leaves alone
stateOthers == <<cacheVars, gcVars, backendVars, blockVars, routeVars, methodVars, memoVars,
                 registryVars, joinVars, muVars,
    useVars, opsVars>>
\* everything a configured read leaves alone
methodOthers == <<clock, closed, cleanPc, cleanNow, lastSet, gcRest, db, rdPc, rdCall, rdVal,
                  rdRet, rdFloor, wrPc, wrCall, invFloor, wrRange, blockVars, routeVars,
                  stateVars, memoVars, registryVars, joinVars, muVars,
    useVars, opsVars>>
\* everything a memoised read or its invalidation leaves alone
memoOthers == <<clock, closed, cleanPc, cleanNow, lastSet, gcRest, db, rdPc, rdCall, rdVal,
                rdRet, rdFloor, wrPc, wrCall, invFloor, wrRange, blockVars, routeVars, stateVars,
                methodVars, registryVars, joinVars, muVars,
    useVars, opsVars>>
\* everything a call on the routing table leaves alone
registryOthers == <<cacheVars, gcVars, backendVars, blockVars, routeVars, stateVars,
                    methodVars, memoVars, joinVars, muVars,
    useVars, opsVars>>
\* everything a call of a combine function on its own leaves alone
joinOthers == <<cacheVars, gcVars, backendVars, blockVars, routeVars, stateVars,
                methodVars, memoVars, registryVars, muVars,
    useVars, opsVars>>
\* everything a step of an AddData caller under the mutex leaves alone
muOthers == <<entries, items, itemsHeap, closed, cleanPc, cleanNow, cleanItem, lastSet,
              gcVars, backendVars, routeVars, stateVars, methodVars, memoVars,
              registryVars, joinVars, useVars, opsVars, blockPartMaxJoinCount>>
\* everything a caller of the Route on its first use leaves alone
useOthers == <<cacheVars, gcVars, backendVars, blockVars, stateVars, methodVars, memoVars,
               registryVars, joinVars, muVars, opsVars>>
\* everything a statement of a BlockStore operation leaves alone
opsOthers == <<entries, items, itemsHeap, closed, cleanPc, cleanNow, cleanItem, lastSet,
               gcVars, backendVars, routeVars, stateVars, methodVars, memoVars,
               registryVars, joinVars, useVars, addPc, addLeft, blockPartMaxJoinCount>>

vars == <<cacheVars, gcVars, backendVars, blockVars, routeVars, wrapperVars>>

FreeEntry == [key |-> <<>>, value |-> Nil, evictAt |-> 0, index |-> -1, used |-> FALSE]
NoRet == [kind |-> "none", value |-> Nil]

\* The cache as one value: the three fields every operation works on.
Cache == [entries |-> entries, items |-> items, heap |-> itemsHeap]

\* items[key] with Go's map semantics: (entry, exists)
ItemOf(c, key) == IF key \in DOMAIN c.items THEN c.items[key] ELSE Nil

\* ---- cacheItemsHeap: Len / Less / Swap / Push / Pop (indices are Go's, from 0)
HLess(c, i, j) == c.entries[c.heap[i + 1]].evictAt < c.entries[c.heap[j + 1]].evictAt

HSwap(c, i, j) ==
  LET a == c.heap[i + 1]
      b == c.heap[j + 1]
  IN [c EXCEPT !.heap = [c.heap EXCEPT ![i + 1] = b, ![j + 1] = a],
               !.entries = [c.entries EXCEPT ![b].index = i, ![a].index = j]]

\* container/heap up(h, j)
RECURSIVE HUp(_, _)
HUp(c, j) ==
  LET i == GoDiv2(j - 1)
  IN IF i = j \/ ~HLess(c, j, i) THEN c ELSE HUp(HSwap(c, i, j), i)

\* container/heap down(h, i0, n): the heap after sifting and the final position
RECURSIVE HDown(_, _, _)
HDown(c, i, n) ==
  LET j1 == 2 * i + 1
  IN IF j1 >= n \/ j1 < 0 THEN [c |-> c, i |-> i]
     ELSE LET j == IF j1 + 1 < n /\ HLess(c, j1 + 1, j1) THEN j1 + 1 ELSE j1
          IN IF ~HLess(c, j, i) THEN [c |-> c, i |-> i]
             ELSE HDown(HSwap(c, i, j), j, n)

\* heap.Push(&h, x): cacheItemsHeap.Push sets index = n and appends, then up(n)
HeapPush(c, x) ==
  LET n == Len(c.heap)
      c1 == [c EXCEPT !.heap = Append(c.heap, x), !.entries[x].index = n]
  IN HUp(c1, n)

\* heap.Pop(&h): Swap(0, n); down(0, n); cacheItemsHeap.Pop drops the last element
HeapPop(c) ==
  LET n == Len(c.heap) - 1
      c1 == HDown(HSwap(c, 0, n), 0, n).c
      x == c1.heap[n + 1]
  IN [c1 EXCEPT !.heap = SubSeq(c1.heap, 1, n), !.entries[x].index = -1]

\* heap.Fix(&h, i): if !down(h, i, n) { up(h, i) }
HeapFix(c, i) ==
  LET d == HDown(c, i, Len(c.heap))
  IN IF d.i > i THEN d.c ELSE HUp(c, i)

\* ---- allocation of cacheEntry objects
FreeIds(c) == {e \in EntryIds : ~c.entries[e].used}

EffectiveTTL(ttl) == IF ttl = 0 THEN DefaultTTL ELSE ttl

\* LocalCache.add: always a fresh entry, stored under key and pushed on the heap
add(c, key, value, ttl, now) ==
  LET e == CHOOSE x \in FreeIds(c) : \A y \in FreeIds(c) : x <= y
      c1 == [c EXCEPT !.entries[e] = [key |-> key, value |-> value,
                                      evictAt |-> now + EffectiveTTL(ttl),
                                      index |-> -1, used |-> TRUE],
                      !.items = [k \in DOMAIN c.items \cup {key} |->
                                   IF k = key THEN e ELSE c.items[k]]]
  IN HeapPush(c1, e)

\* LocalCache.update: the entry items holds for key, changed in place, then heap.Fix
update(c, key, value, ttl, now) ==
  LET e == c.items[key]
      c1 == [c EXCEPT !.entries[e].evictAt = now + EffectiveTTL(ttl),
                      !.entries[e].value = value]
  IN HeapFix(c1, c1.entries[e].index)

\* delete(c.items, key) of the Go map
MapDelete(c, keys) == [c EXCEPT !.items = [k \in DOMAIN c.items \ keys |-> c.items[k]]]

\* LocalCache.delete: evictAt := now, value := nil, key removed from items
delete(c, key, now) ==
  LET e == ItemOf(c, key)
  IN IF e = Nil THEN c
     ELSE MapDelete([c EXCEPT !.entries[e].evictAt = now,
                              !.entries[e].value = Nil], {key})

\* a Get that returns whatever items holds, without the test on evictAt
GetResultNoExpiry(c, key, now) ==
  LET e == ItemOf(c, key)
  IN IF e = Nil THEN [value |-> Nil, found |-> FALSE]
     ELSE [value |-> c.entries[e].value, found |-> TRUE]

\* LocalCache.Get as a function of the cache and the time of the call
GetResult(c, key, now) ==
  LET e == ItemOf(c, key)
  IN IF e = Nil THEN [value |-> Nil, found |-> FALSE]
     ELSE IF now > c.entries[e].evictAt THEN [value |-> Nil, found |-> FALSE]
     ELSE [value |-> c.entries[e].value, found |-> TRUE]

\* the loop of evictFn under the write lock
RECURSIVE evictLoop(_, _, _)
evictLoop(c, now, tnow) ==
  IF Len(c.heap) = 0 THEN c
  ELSE LET item == c.heap[1]
       IN IF c.entries[item].evictAt > now THEN c
          ELSE evictLoop(HeapPop(delete(c, c.entries[item].key, tnow)), now, tnow)

\* ---- addresses: objects are renumbered after every step so that two states
\* differing only in the addresses of the same objects are one state; objects
\* that nothing references are released (garbage collection).
RECURSIVE Dedupe(_, _)
Dedupe(s, seen) ==
  IF s = <<>> THEN <<>>
  ELSE IF Head(s) \in seen \/ Head(s) = Nil THEN Dedupe(Tail(s), seen)
  ELSE <<Head(s)>> \o Dedupe(Tail(s), seen \cup {Head(s)})

AddressOrder(c, ci, ge) ==
  Dedupe(c.heap \o SetToSeq({c.items[k] : k \in DOMAIN c.items})
           \o <<ci>> \o [i \in 1..Len(GcOrder) |-> ge[GcOrder[i]]], {})

NewAddress(order, e) == IF e = Nil THEN Nil ELSE CHOOSE i \in 1..Len(order) : order[i] = e

Commit(c, ci, ge) ==
  \E x \in {c} : \E order \in {AddressOrder(x, ci, ge)} :
     /\ entries' = [e \in EntryIds |->
                      IF e <= Len(order) THEN x.entries[order[e]] ELSE FreeEntry]
     /\ items' = [k \in DOMAIN x.items |-> NewAddress(order, x.items[k])]
     /\ itemsHeap' = [i \in 1..Len(x.heap) |-> NewAddress(order, x.heap[i])]
     /\ cleanItem' = NewAddress(order, ci)
     /\ gcEntry' = [t \in GcThreads |-> NewAddress(order, ge[t])]

Forget(f, keys) == [k \in DOMAIN f \ keys |-> f[k]]

\* ---- actions of the LocalCache
Set(key, value, ttl) ==
  /\ closed # "panic"
  /\ FreeIds(Cache) # {}
  /\ Commit(add(Cache, key, value, ttl, clock), cleanItem, gcEntry)
  /\ lastSet' = [k \in DOMAIN lastSet \cup {key} |->
                   IF k = key THEN [value |-> value, until |-> clock + EffectiveTTL(ttl)]
                   ELSE lastSet[k]]
  /\ UNCHANGED <<clock, closed, cleanPc, cleanNow, cacheOthers>>

\* LocalCache.Get reads under the read lock and changes nothing
Get(key) ==
  /\ closed # "panic"
  /\ GetResult(Cache, key, clock) \in [value : CacheValues \cup {Nil}, found : BOOLEAN]
  /\ UNCHANGED vars

Delete(key) ==
  /\ closed # "panic"
  /\ Commit(delete(Cache, key, clock), cleanItem, gcEntry)
  /\ lastSet' = Forget(lastSet, {key})
  /\ UNCHANGED <<clock, closed, cleanPc, cleanNow, cacheOthers>>

DeleteByPrefix(prefix) ==
  /\ closed # "panic"
  /\ Commit(MapDelete(Cache, {k \in DOMAIN items : IsPrefix(prefix, k)}), cleanItem, gcEntry)
  /\ lastSet' = Forget(lastSet, {k \in DOMAIN lastSet : IsPrefix(prefix, k)})
  /\ UNCHANGED <<clock, closed, cleanPc, cleanNow, cacheOthers>>

Clear ==
  /\ closed # "panic"
  /\ Commit(MapDelete(Cache, DOMAIN items), cleanItem, gcEntry)
  /\ lastSet' = Forget(lastSet, DOMAIN lastSet)
  /\ UNCHANGED <<clock, closed, cleanPc, cleanNow, cacheOthers>>

\* cleanupExpired, the select takes a tick: evictFn up to `now := time.Now()`.
\* The select takes the tick whether or not stopChan is closed (Go picks among
\* the ready cases at random). With an empty heap evictFn returns at once,
\* which changes nothing; the test reads the length without a lock, and the
\* only value it can miss is a push in progress, which again is the return.
CleanupTick ==
  /\ closed # "panic"
  /\ cleanPc = "idle"
  /\ Len(itemsHeap) > 0
  /\ cleanNow' = clock
  /\ cleanPc' = "started"
  /\ UNCHANGED <<clock, entries, items, itemsHeap, closed, cleanItem, lastSet, gcEntry,
                 cacheOthers>>

\* evictFn: the peek at itemsHeap[0] under the read lock
CleanupPeek ==
  /\ closed # "panic"
  /\ cleanPc = "started"
  /\ cleanItem' = itemsHeap[1]
  /\ cleanPc' = "peeked"
  /\ UNCHANGED <<clock, entries, items, itemsHeap, closed, cleanNow, lastSet, gcEntry,
                 cacheOthers>>

\* cleanupExpired, the select takes stopChan: the goroutine returns
CleanupExit ==
  /\ closed = "closed"
  /\ cleanPc = "idle"
  /\ cleanPc' = "exited"
  /\ UNCHANGED <<clock, entries, items, itemsHeap, closed, cleanNow, cleanItem, lastSet,
                 gcEntry, cacheOthers>>

\* evictFn: the unlocked test of the peeked item
CleanupCheck ==
  /\ closed # "panic"
  /\ cleanPc = "peeked"
  /\ IF entries[cleanItem].evictAt > cleanNow
       THEN /\ cleanPc' = "idle"
            /\ cleanNow' = 0
            /\ Commit(Cache, Nil, gcEntry)
       ELSE /\ cleanPc' = "checked"
            /\ UNCHANGED <<cleanItem, cleanNow, entries, items, itemsHeap, gcEntry>>
  /\ UNCHANGED <<clock, closed, lastSet, cacheOthers>>

\* evictFn: the eviction loop under the write lock
CleanupEvict ==
  /\ closed # "panic"
  /\ cleanPc = "checked"
  /\ Commit(evictLoop(Cache, cleanNow, clock), Nil, gcEntry)
  /\ cleanPc' = "idle"
  /\ cleanNow' = 0
  /\ UNCHANGED <<clock, closed, lastSet, cacheOthers>>

\* Close: close(c.stopChan); closing it a second time panics
Close ==
  /\ closed # "panic"
  /\ closed' = IF closed = "open" THEN "closed" ELSE "panic"
  /\ UNCHANGED <<clock, entries, items, itemsHeap, cleanPc, cleanNow, cleanItem,
                 lastSet, gcEntry, cacheOthers>>

Tick ==
  /\ clock < MaxClock
  /\ clock' = clock + 1
  /\ UNCHANGED <<entries, items, itemsHeap, closed, cleanPc, cleanNow, cleanItem,
                 lastSet, gcEntry, cacheOthers>>

\* ---- GetCreateOrUpdate, one caller t: the read under the read lock
GcRead(t, key, ttl) ==
  /\ gcPc[t] = "idle"
  /\ gcPc' = [gcPc EXCEPT ![t] = "read"]
  /\ gcKey' = [gcKey EXCEPT ![t] = key]
  /\ gcTtl' = [gcTtl EXCEPT ![t] = ttl]
  /\ gcEntry' = [gcEntry EXCEPT ![t] = ItemOf(Cache, key)]
  /\ gcRet' = [gcRet EXCEPT ![t] = NoRet]
  /\ UNCHANGED <<clock, entries, items, itemsHeap, cleanItem, fetchOnLive, gcOthers>>

\* the first, unlocked test `exists && time.Now().Before(entry.evictAt)`
GcCheck(t) ==
  /\ gcPc[t] = "read"
  /\ gcPc' = [gcPc EXCEPT ![t] =
                IF gcEntry[t] # Nil /\ clock < entries[gcEntry[t]].evictAt
                  THEN "hit" ELSE "checked"]
  /\ UNCHANGED <<clock, gcRet, entries, items, itemsHeap, cleanItem, gcEntry, gcKey, gcTtl,
                 fetchOnLive, gcOthers>>

\* `return entry.value, nil` of the fast path: a second read of the entry with
\* no lock held, after the test
GcReturn(t) ==
  /\ gcPc[t] = "hit"
  /\ gcPc' = [gcPc EXCEPT ![t] = "idle"]
  /\ gcRet' = [gcRet EXCEPT ![t] = [kind |-> "value", value |-> entries[gcEntry[t]].value]]
  /\ Commit(Cache, cleanItem, [gcEntry EXCEPT ![t] = Nil])
  /\ UNCHANGED <<clock, gcKey, gcTtl, fetchOnLive, gcOthers>>

FetchResults == [kind : {"value"}, value : CacheValues]
                  \cup {[kind |-> "error", value |-> Nil], [kind |-> "nil", value |-> Nil]}

\* the rest of GetCreateOrUpdate under the write lock; res is what fetchFunc returns
GcLocked(t, res) ==
  /\ gcPc[t] = "checked"
  /\ gcPc' = [gcPc EXCEPT ![t] = "idle"]
  /\ LET e == gcEntry[t]
         key == gcKey[t]
         exists == e # Nil
     IN IF exists /\ clock < entries[e].evictAt
          THEN \* the double check on the local entry
               /\ res = [kind |-> "nil", value |-> Nil]
               /\ gcRet' = [gcRet EXCEPT ![t] = [kind |-> "value", value |-> entries[e].value]]
               /\ Commit(Cache, cleanItem, [gcEntry EXCEPT ![t] = Nil])
               /\ UNCHANGED fetchOnLive
          ELSE \* fetchFunc(exists, value) is invoked
               /\ fetchOnLive' = (fetchOnLive \/ GetResult(Cache, key, clock).found)
               /\ IF res.kind # "value"
                    THEN /\ gcRet' = [gcRet EXCEPT ![t] = res]
                         /\ Commit(Cache, cleanItem, [gcEntry EXCEPT ![t] = Nil])
                    ELSE IF exists /\ ItemOf(Cache, key) = Nil
                    THEN \* update dereferences c.items[key], which is nil
                         /\ gcRet' = [gcRet EXCEPT ![t] = [kind |-> "panic", value |-> Nil]]
                         /\ Commit(Cache, cleanItem, [gcEntry EXCEPT ![t] = Nil])
                    ELSE IF exists
                    THEN /\ gcRet' = [gcRet EXCEPT ![t] = res]
                         /\ Commit(update(Cache, key, res.value, gcTtl[t], clock),
                                   cleanItem, [gcEntry EXCEPT ![t] = Nil])
                    ELSE /\ FreeIds(Cache) # {}
                         /\ gcRet' = [gcRet EXCEPT ![t] = res]
                         /\ Commit(add(Cache, key, res.value, gcTtl[t], clock),
                                   cleanItem, [gcEntry EXCEPT ![t] = Nil])
  /\ UNCHANGED <<clock, gcKey, gcTtl, gcOthers>>

\* ============================================================ CachedBackend
NoCall == [method |-> "", args |-> <<>>]

\* BuildCacheKey: "<method>:<hash of {method, args}>"; the hash is injective here
CacheKeyOf(call) == <<call.method, ":">> \o call.args

RegistryKeyOf(call) == <<call.method, ":", call.args[1]>>

\* BuildCacheKey's side effect: the key is registered under method and first argument
Register(reg, call) ==
  IF Len(call.args) = 0 THEN reg
  ELSE LET rk == RegistryKeyOf(call)
           old == IF rk \in DOMAIN reg THEN reg[rk] ELSE {}
       IN [k \in DOMAIN reg \cup {rk} |->
             IF k = rk THEN old \cup {CacheKeyOf(call)} ELSE reg[k]]

FloorOf(key) == IF key \in DOMAIN invFloor THEN invFloor[key] ELSE 0

\* BuildCacheKey, its first operation on the registry: keyRegistry.LoadOrStore
loadOrStore(reg, call) ==
  IF Len(call.args) = 0 \/ RegistryKeyOf(call) \in DOMAIN reg THEN reg
  ELSE [k \in DOMAIN reg \cup {RegistryKeyOf(call)} |->
          IF k = RegistryKeyOf(call) THEN {} ELSE reg[k]]

\* CallCached -> BuildCacheKey up to LoadOrStore: the caller holds the key set
\* the registry has for its method and first argument
RdStart(t, call) ==
  /\ rdPc[t] = "idle"
  /\ keyRegistry' = loadOrStore(keyRegistry, call)
  /\ rdCall' = [rdCall EXCEPT ![t] = call]
  /\ rdFloor' = [rdFloor EXCEPT ![t] = FloorOf(CacheKeyOf(call))]
  /\ rdRet' = [rdRet EXCEPT ![t] = NoRet]
  /\ rdPc' = [rdPc EXCEPT ![t] = IF Len(call.args) = 0 THEN "keyed" ELSE "loaded"]
  /\ UNCHANGED <<clock, entries, items, itemsHeap, cleanItem, gcEntry, lastSet,
                 db, rdVal, wrPc, wrCall, invFloor, wrRange, backendOthers>>

\* BuildCacheKey: keySet.Store(cacheKey, true) on the key set it holds, which
\* is no longer the registry's when InvalidateMethodPrefix has removed it
RdRegister(t) ==
  /\ rdPc[t] \in {"loaded", "orphaned"}
  /\ keyRegistry' = IF rdPc[t] = "loaded" THEN Register(keyRegistry, rdCall[t])
                                          ELSE keyRegistry
  /\ rdPc' = [rdPc EXCEPT ![t] = "keyed"]
  /\ UNCHANGED <<clock, entries, items, itemsHeap, cleanItem, gcEntry, lastSet,
                 db, rdCall, rdVal, rdRet, rdFloor, wrPc, wrCall, invFloor, wrRange, backendOthers>>

\* GetCached: the cache.Get
RdGet(t) ==
  /\ rdPc[t] = "keyed"
  /\ LET got == GetResult(Cache, CacheKeyOf(rdCall[t]), clock)
     IN IF got.found
          THEN /\ rdRet' = [rdRet EXCEPT ![t] = [kind |-> "value", value |-> got.value]]
               /\ rdPc' = [rdPc EXCEPT ![t] = "idle"]
          ELSE /\ rdPc' = [rdPc EXCEPT ![t] = "missed"]
               /\ UNCHANGED rdRet
  /\ UNCHANGED <<clock, entries, items, itemsHeap, cleanItem, gcEntry, lastSet,
                 db, keyRegistry, rdCall, rdVal, rdFloor, wrPc, wrCall, invFloor, wrRange,
                 backendOthers>>

\* GetCached: fetchFunc() against the backend
RdFetch(t, ok) ==
  /\ rdPc[t] = "missed"
  /\ IF ok
       THEN /\ rdVal' = [rdVal EXCEPT ![t] = db]
            /\ rdPc' = [rdPc EXCEPT ![t] = "fetched"]
            /\ UNCHANGED rdRet
       ELSE /\ rdRet' = [rdRet EXCEPT ![t] = [kind |-> "error", value |-> Nil]]
            /\ rdPc' = [rdPc EXCEPT ![t] = "idle"]
            /\ UNCHANGED rdVal
  /\ UNCHANGED <<clock, entries, items, itemsHeap, cleanItem, gcEntry, lastSet,
                 db, keyRegistry, rdCall, rdFloor, wrPc, wrCall, invFloor, wrRange, backendOthers>>

\* GetCached: cache.Set(cacheKey, result, defaultTTL) and the return
RdStore(t) ==
  /\ rdPc[t] = "fetched"
  /\ FreeIds(Cache) # {}
  /\ Commit(add(Cache, CacheKeyOf(rdCall[t]), rdVal[t], DefaultTTL, clock), cleanItem, gcEntry)
  /\ rdRet' = [rdRet EXCEPT ![t] = [kind |-> "value", value |-> rdVal[t]]]
  /\ rdVal' = [rdVal EXCEPT ![t] = Nil]
  /\ rdPc' = [rdPc EXCEPT ![t] = "idle"]
  /\ UNCHANGED <<clock, lastSet, db, keyRegistry, rdCall, rdFloor, wrPc, wrCall,
                 invFloor, wrRange, backendOthers>>

\* a write method of the wrapper: the backend write has succeeded
BackendWrite(call) ==
  /\ wrPc = "idle"
  /\ db < MaxValue
  /\ db' = db + 1
  /\ wrCall' = call
  /\ wrPc' = "written"
  /\ UNCHANGED <<clock, entries, items, itemsHeap, cleanItem, gcEntry, lastSet,
                 keyRegistry, rdPc, rdCall, rdVal, rdRet, rdFloor, invFloor, wrRange, backendOthers>>

\* InvalidateMethod(method, args...): BuildCacheKey. Its two operations on the
\* registry are one step: the writer is the only caller that removes from the
\* registry, and additions by readers commute with them.
InvalidateKey ==
  /\ wrPc = "written"
  /\ keyRegistry' = Register(keyRegistry, wrCall)
  /\ wrPc' = "keyed"
  /\ UNCHANGED <<clock, entries, items, itemsHeap, cleanItem, gcEntry, lastSet,
                 db, rdPc, rdCall, rdVal, rdRet, rdFloor, wrCall, invFloor, wrRange, backendOthers>>

\* InvalidateMethod: cache.Delete(ctx, cacheKey)
InvalidateMethod ==
  /\ wrPc = "keyed"
  /\ UNCHANGED keyRegistry
  /\ Commit(delete(Cache, CacheKeyOf(wrCall), clock), cleanItem, gcEntry)
  /\ invFloor' = [k \in DOMAIN invFloor \cup {CacheKeyOf(wrCall)} |->
                    IF k = CacheKeyOf(wrCall) THEN db ELSE invFloor[k]]
  /\ wrPc' = "idle"
  /\ wrCall' = NoCall
  /\ UNCHANGED <<clock, lastSet, db, rdPc, rdCall, rdVal, rdRet, rdFloor, wrRange,
                 backendOthers>>

\* the calls whose entries an invalidation by prefix may or may not cover
PrefixCalls == BackendCalls \cup {[method |-> "Find", args |-> <<"y">>]}
\* one reader is in flight while the writer invalidates
PrefixReaders == {"r1"}
PrefixMethods == {call.method : call \in PrefixCalls}
PrefixArgs == {call.args[1] : call \in PrefixCalls}

NoRange == [must |-> {}, seen |-> {}, had |-> <<>>]

\* the argument lists handed to InvalidateMethodPrefix: none, or a first argument
PrefixArgLists == {<<>>} \cup {<<a>> : a \in PrefixArgs}

\* InvalidateMethodPrefix(method, prefixArgs...) up to the start of keySet.Range.
\* Without prefixArgs the call is cache.DeleteByPrefix(method + ":") and leaves
\* the registry alone. Otherwise keyRegistry.Load(method + ":" + prefixArgs[0]):
\* with no entry the call returns, with one the Range over its key set begins.
InvalidateMethodPrefix(method, prefixArgs) ==
  /\ wrPc = "idle"
  /\ IF Len(prefixArgs) = 0
       THEN /\ Commit(MapDelete(Cache, {k \in DOMAIN items : IsPrefix(<<method, ":">>, k)}),
                      cleanItem, gcEntry)
            /\ UNCHANGED <<wrPc, wrCall, wrRange>>
       ELSE LET registryKey == <<method, ":", prefixArgs[1]>>
            IN IF registryKey \in DOMAIN keyRegistry
                 THEN /\ wrPc' = "ranging"
                      /\ wrCall' = [method |-> method, args |-> prefixArgs]
                      /\ wrRange' = [must |-> keyRegistry[registryKey], seen |-> {},
                                     had |-> [k \in {c \in DOMAIN items :
                                                      IsPrefix(<<method, ":", prefixArgs[1]>>, c)}
                                                |-> items[k]]]
                      /\ UNCHANGED <<entries, items, itemsHeap, cleanItem, gcEntry>>
                 ELSE UNCHANGED <<entries, items, itemsHeap, cleanItem, gcEntry,
                                  wrPc, wrCall, wrRange>>
  /\ UNCHANGED <<clock, lastSet, db, keyRegistry, rdPc, rdCall, rdVal, rdRet, rdFloor,
                 invFloor, backendOthers>>

\* keySet.Range, one key: cache.Delete(ctx, cacheKey) under the cache's lock. The
\* Range visits every key the set held when it began, and may or may not visit
\* a key stored in the set since.
PrefixDelete(key) ==
  /\ wrPc = "ranging"
  /\ key \in keyRegistry[RegistryKeyOf(wrCall)] \ wrRange.seen
  /\ Commit(delete(Cache, key, clock), cleanItem, gcEntry)
  /\ wrRange' = [wrRange EXCEPT !.seen = @ \cup {key}]
  /\ UNCHANGED <<clock, lastSet, db, keyRegistry, rdPc, rdCall, rdVal, rdRet, rdFloor,
                 wrPc, wrCall, invFloor, backendOthers>>

\* the Range is over: keyRegistry.Delete(registryKey), and the call returns. A
\* reader that holds the key set from its LoadOrStore now holds a set the
\* registry no longer has.
PrefixForget ==
  /\ wrPc = "ranging"
  /\ wrRange.must \subseteq wrRange.seen
  /\ keyRegistry' = Forget(keyRegistry, {RegistryKeyOf(wrCall)})
  /\ rdPc' = [t \in Readers |->
                IF rdPc[t] = "loaded" /\ RegistryKeyOf(rdCall[t]) = RegistryKeyOf(wrCall)
                  THEN "orphaned" ELSE rdPc[t]]
  /\ wrPc' = "idle"
  /\ wrCall' = NoCall
  /\ wrRange' = NoRange
  /\ UNCHANGED <<clock, entries, items, itemsHeap, cleanItem, gcEntry, lastSet, db,
                 rdCall, rdVal, rdRet, rdFloor, invFloor, backendOthers>>

\* InvalidateCache(ctx, patterns...), one pattern: "*" clears the cache, any
\* other pattern is deleted as a key. A call with several patterns is a
\* sequence of these steps, each under the cache's lock on its own, that ends
\* with the first "*".
InvalidateCache(pattern) ==
  /\ wrPc = "idle"
  /\ IF pattern = <<"*">>
       THEN Commit(MapDelete(Cache, DOMAIN items), cleanItem, gcEntry)
       ELSE Commit(delete(Cache, pattern, clock), cleanItem, gcEntry)
  /\ UNCHANGED <<clock, lastSet, backendVars, backendOthers>>

\* =============================================================== BlockStore
MaxParts == 3
MaxFailAt == 2
\* the parts of a store whose lists are followed over several aborted calls, and
\* the blockPartMaxJoinCount it is made with
MaxOrderParts == 5
MaxOrderJoins == 3

\* the other arguments of NewBlockStore
blockCountSoftLimit == 1
blockWindowTTL == 1
blockPartMaxAge == 1

Sources == {"s1", "s2"}
KeyDefinitions == <<"id">>

\* a field value: its Go type and the text fmt prints for it with %v
StrA == [type |-> "string", text |-> <<"a">>]
StrB == [type |-> "string", text |-> <<"b">>]
Sprintf(v) == v.text

\* models.Data: field name -> value; the last event lacks the key field
Events == {[id |-> StrA], [id |-> StrB], [other |-> StrA]}

\* the addresses of BlockParts
PartIds == 1..MaxOrderParts


OrderFails == {[kind |-> "none", at |-> 0], [kind |-> "callback", at |-> 2]}

\* what combineFunc / callback do in a call: succeed, or fail at their at-th invocation
Fails == {[kind |-> "none", at |-> 0]} \cup [kind : {"combine", "callback"}, at : 1..MaxFailAt]

\* the orders in which `range block.partsBySource` can visit the sources in S
RECURSIVE RangeOrders(_)
RangeOrders(S) ==
  IF S = {} THEN {<<>>}
  ELSE UNION {{<<x>> \o o : o \in RangeOrders(S \ {x})} : x \in S}

\* GetKeyValue: the values of the key fields, each printed and followed by "|"
RECURSIVE GetKeyValueFrom(_, _)
GetKeyValueFrom(event, fields) ==
  IF fields = <<>> THEN [key |-> <<>>, ok |-> TRUE]
  ELSE IF Head(fields) \notin DOMAIN event THEN [key |-> <<>>, ok |-> FALSE]
  ELSE LET rest == GetKeyValueFrom(event, Tail(fields))
       IN IF ~rest.ok THEN rest
          ELSE [key |-> Sprintf(event[Head(fields)]) \o <<"|">> \o rest.key, ok |-> TRUE]

GetKeyValue(event) == GetKeyValueFrom(event, KeyDefinitions)

\* the store holds fewer than n parts, where the call lands one
Room(event, n) == GetKeyValue(event).ok => Cardinality(DOMAIN parts) < n

BlockKeys == {GetKeyValue(e).key : e \in {x \in Events : GetKeyValue(x).ok}}

\* a Block object outside the map is named <<"#", n>>
MaxStrays == 3
StrayOrder == <<<<"#", "1">>, <<"#", "2">>, <<"#", "3">>, <<"#", "4">>>>
StrayIds == {StrayOrder[i] : i \in 1..MaxStrays}
IsStray(ref) == ref \in StrayIds

\* The store as one value: the fields every operation works on. Its blocks are
\* the Block objects by reference: those of the map under their key, and the
\* strays under their name.
Store == [blocks |-> [r \in DOMAIN blocks \cup DOMAIN strays |->
                        IF r \in DOMAIN blocks THEN blocks[r] ELSE strays[r]],
          heap |-> blockHeap, parts |-> parts]

\* the keys of store.blocks
MapKeys(s) == DOMAIN s.blocks \ StrayIds

NoSnapshot == [blocks |-> <<>>, heap |-> <<>>, parts |-> <<>>, lastAccessed |-> 0]
Snapshot == [blocks |-> blocks, heap |-> blockHeap, parts |-> parts,
             lastAccessed |-> lastAccessed]
NoAdd == [kind |-> "none", key |-> <<>>, now |-> 0, inbound |-> Nil, calls |-> <<>>,
          pre |-> NoSnapshot]
NoPass == [now |-> -1, removed |-> <<>>]

\* ---- blockHeap: Len / Less / Swap / Push / Pop (indices are Go's, from 0)
BLess(s, i, j) ==
  s.blocks[s.heap[i + 1]].evictionTime < s.blocks[s.heap[j + 1]].evictionTime

BSwap(s, i, j) ==
  LET a == s.heap[i + 1]
      b == s.heap[j + 1]
  IN [s EXCEPT !.heap = [s.heap EXCEPT ![i + 1] = b, ![j + 1] = a],
               !.blocks = [s.blocks EXCEPT ![b].heapIndex = i, ![a].heapIndex = j]]

RECURSIVE BUp(_, _)
BUp(s, j) ==
  LET i == GoDiv2(j - 1)
  IN IF i = j \/ ~BLess(s, j, i) THEN s ELSE BUp(BSwap(s, i, j), i)

RECURSIVE BDown(_, _, _)
BDown(s, i, n) ==
  LET j1 == 2 * i + 1
  IN IF j1 >= n \/ j1 < 0 THEN [s |-> s, i |-> i]
     ELSE LET j == IF j1 + 1 < n /\ BLess(s, j1 + 1, j1) THEN j1 + 1 ELSE j1
          IN IF ~BLess(s, j, i) THEN [s |-> s, i |-> i]
             ELSE BDown(BSwap(s, i, j), j, n)

\* heap.Push(&store.heap, block)
BlockHeapPush(s, key) ==
  LET n == Len(s.heap)
  IN BUp([s EXCEPT !.heap = Append(s.heap, key), !.blocks[key].heapIndex = n], n)

\* heap.Pop(&store.heap): the popped block leaves the heap with heapIndex = -1
BlockHeapPop(s) ==
  LET n == Len(s.heap) - 1
      s1 == BDown(BSwap(s, 0, n), 0, n).s
      x == s1.heap[n + 1]
  IN [s1 EXCEPT !.heap = SubSeq(s1.heap, 1, n), !.blocks[x].heapIndex = -1]

\* heap.Fix(&store.heap, i); for i = -1 neither down nor up moves anything
BlockHeapFix(s, i) ==
  LET d == BDown(s, i, Len(s.heap))
  IN IF d.i > i THEN d.s ELSE BUp(s, i)

\* the Block named `from` is named `to` from now on
Rename(s, from, to) ==
  [s EXCEPT !.blocks = [r \in (DOMAIN s.blocks \ {from}) \cup {to} |->
                          IF r = to THEN s.blocks[from] ELSE s.blocks[r]],
            !.heap = [i \in 1..Len(s.heap) |-> IF s.heap[i] = from THEN to ELSE s.heap[i]]]

FreshStray(s) == CHOOSE r \in StrayIds \ DOMAIN s.blocks :
                   \A q \in StrayIds \ DOMAIN s.blocks : r[2] = "1" \/ q[2] # "1"

\* the map lets go of the block it holds under key, which lives on as a stray
Orphan(s, key) == Rename(s, key, FreshStray(s))

\* delete(store.blocks, key): a block that is still in the heap stays an object
DeleteBlock(s, key) ==
  IF key \notin MapKeys(s) THEN s
  ELSE IF \E i \in 1..Len(s.heap) : s.heap[i] = key THEN Orphan(s, key)
  ELSE [s EXCEPT !.blocks = [k \in DOMAIN s.blocks \ {key} |-> s.blocks[k]]]

\* fixed orders in which addresses are handed out to the BlockParts of a state
SourceOrder == <<"s1", "s2">>
BlockKeyOrder ==
  CHOOSE q \in [1..Cardinality(BlockKeys) -> BlockKeys] : {q[i] : i \in DOMAIN q} = BlockKeys

RECURSIVE Flatten(_)
Flatten(ss) == IF ss = <<>> THEN <<>> ELSE Head(ss) \o Flatten(Tail(ss))

\* BlockPart objects that some list still references, in list order; the others
\* are garbage
LiveParts(s) ==
  LET refs == BlockKeyOrder \o StrayOrder
  IN Dedupe(Flatten([i \in 1..Len(refs) |->
                       IF refs[i] \in DOMAIN s.blocks
                         THEN Flatten([j \in 1..Len(SourceOrder) |->
                                s.blocks[refs[i]].partsBySource[SourceOrder[j]]])
                         ELSE <<>>]), {})

\* BlockParts nothing references are released and the others renumbered, so that
\* states differing only in the addresses of the same objects are one state
Release(s, order) ==
  [s EXCEPT !.parts = [i \in 1..Len(order) |-> s.parts[order[i]]],
            !.blocks = [k \in DOMAIN s.blocks |->
                          [s.blocks[k] EXCEPT !.partsBySource =
                             [x \in Sources |->
                                [i \in 1..Len(s.blocks[k].partsBySource[x]) |->
                                   NewAddress(order, s.blocks[k].partsBySource[x][i])]]]]]

FreePartIds(s) == PartIds \ DOMAIN s.parts

\* GetOrAddBlock: the block stored under key, created and pushed when absent
GetOrAddBlock(s, key, now) ==
  IF key \in DOMAIN s.blocks THEN s
  ELSE BlockHeapPush(
         [s EXCEPT !.blocks = [k \in DOMAIN s.blocks \cup {key} |->
                                 IF k = key
                                   THEN [key |-> key,
                                         partsBySource |-> [x \in Sources |-> <<>>],
                                         evictionTime |-> now + blockWindowTTL,
                                         heapIndex |-> -1]
                                   ELSE s.blocks[k]]],
         key)

\* JoinCombine / MergeCombine on the two parts: both JoinCounts go up by one
combineFunc(tab, e1, e2) ==
  [tab EXCEPT ![e1].JoinCount = @ + 1, ![e2].JoinCount = @ + 1]

\* AddData's inner loop over the stored parts of one other source, with the
\* in-place compaction of the list; it stops at the first combine/callback error
RECURSIVE joinStored(_, _, _, _, _)
joinStored(it, c, storedSourceID, storedParts, idx) ==
  IF idx > Len(storedParts) THEN it
  ELSE LET storedPart == storedParts[idx]
           expired == it.s.parts[storedPart].ExpireAt < c.now
           maxJoinsReached == it.s.parts[storedPart].JoinCount >= blockPartMaxJoinCount
       IN IF expired \/ maxJoinsReached
            THEN joinStored(it, c, storedSourceID, storedParts, idx + 1)
            ELSE LET placed == [it EXCEPT
                       !.s.blocks[c.key].partsBySource[storedSourceID][it.write + 1] =
                          storedPart]
                     n == Len(it.calls) + 1
                 IN IF c.fail.kind = "combine" /\ c.fail.at = n
                      THEN [placed EXCEPT !.err = "combine"]
                      ELSE LET joined == [placed EXCEPT
                                 !.s.parts = combineFunc(@, storedPart, c.inbound),
                                 !.calls = Append(@, storedPart)]
                           IN IF c.fail.kind = "callback" /\ c.fail.at = n
                                THEN [joined EXCEPT !.err = "callback"]
                                ELSE joinStored([joined EXCEPT !.write = @ + 1], c,
                                                storedSourceID, storedParts, idx + 1)

\* the loop over the other sources without the final truncation of the list
RECURSIVE joinSourcesNoCompact(_, _, _)
joinSourcesNoCompact(it, c, order) ==
  IF order = <<>> THEN it
  ELSE LET storedSourceID == Head(order)
           storedParts == it.s.blocks[c.key].partsBySource[storedSourceID]
           done == joinStored([it EXCEPT !.write = 0], c, storedSourceID, storedParts, 1)
       IN IF done.err # "none" THEN done
          ELSE joinSourcesNoCompact(done, c, Tail(order))

\* AddData's outer loop over the other sources, in the order the map yields them
RECURSIVE joinSources(_, _, _)
joinSources(it, c, order) ==
  IF order = <<>> THEN it
  ELSE LET storedSourceID == Head(order)
           storedParts == it.s.blocks[c.key].partsBySource[storedSourceID]
           done == joinStored([it EXCEPT !.write = 0], c, storedSourceID, storedParts, 1)
       IN IF done.err # "none" THEN done
          ELSE joinSources(
                 [done EXCEPT !.s.blocks[c.key].partsBySource[storedSourceID] =
                                 SubSeq(@, 1, done.write)],
                 c, Tail(order))

\* AddData on its `block`: the inbound part, the combine loops, and (only when
\* no combine/callback error returned early) the new evictionTime of the block
joinBlock(s1, inboundSourceID, event, block, now, fail, order) ==
  LET inbound == CHOOSE p \in FreePartIds(s1) : \A q \in FreePartIds(s1) : p <= q
      s2 == [s1 EXCEPT
               !.parts = [p \in DOMAIN s1.parts \cup {inbound} |->
                            IF p = inbound
                              THEN [Data |-> event, ExpireAt |-> now + blockPartMaxAge,
                                    JoinCount |-> 0]
                              ELSE s1.parts[p]],
               !.blocks[block].partsBySource[inboundSourceID] = Append(@, inbound)]
      it == joinSources([s |-> s2, write |-> 0, calls |-> <<>>, err |-> "none"],
                        [key |-> block, now |-> now, fail |-> fail, inbound |-> inbound],
                        order)
  IN IF it.err # "none"
       THEN [s |-> it.s, kind |-> it.err, key |-> block, inbound |-> inbound,
             calls |-> it.calls]
       ELSE [s |-> [it.s EXCEPT !.blocks[block].evictionTime = now + blockWindowTTL],
             kind |-> "ok", key |-> block, inbound |-> inbound, calls |-> it.calls]

\* AddData once the key is known: block lookup, the inbound part, the combine
\* loops, and (only when no combine/callback error returned early) the refresh
\* of the block's evictionTime with heap.Fix
addLanded(s, inboundSourceID, event, keyValue, now, fail, order) ==
  LET j == joinBlock(GetOrAddBlock(s, keyValue, now), inboundSourceID, event, keyValue,
                     now, fail, order)
  IN IF j.kind # "ok" THEN j
     ELSE [j EXCEPT !.s = BlockHeapFix(j.s, j.s.blocks[keyValue].heapIndex)]

\* addData with the key check made too late: the block is looked up (and created)
\* under the partial key before the error is returned
addDataLateCheck(s, inboundSourceID, event, now, fail, order) ==
  LET kv == GetKeyValue(event)
  IN IF ~kv.ok
       THEN [s |-> GetOrAddBlock(s, kv.key, now), kind |-> "keyerr", key |-> <<>>,
             inbound |-> Nil, calls |-> <<>>]
       ELSE addLanded(s, inboundSourceID, event, kv.key, now, fail, order)

\* AddData under the mutex, after lastAccessed has been set
addData(s, inboundSourceID, event, now, fail, order) ==
  LET kv == GetKeyValue(event)
  IN IF ~kv.ok
       THEN [s |-> s, kind |-> "keyerr", key |-> <<>>, inbound |-> Nil, calls |-> <<>>]
       ELSE addLanded(s, inboundSourceID, event, kv.key, now, fail, order)

\* evictFn's loop without the test of the soft limit
RECURSIVE evictFnLoopNoLimit(_, _, _)
evictFnLoopNoLimit(s, now, removed) ==
  IF Len(s.heap) = 0 THEN [s |-> s, removed |-> removed]
  ELSE LET blk == s.heap[1]
       IN IF s.blocks[blk].evictionTime < now
            THEN evictFnLoopNoLimit(DeleteBlock(BlockHeapPop(s), blk), now,
                             Append(removed, [key |-> blk,
                                              size |-> Cardinality(MapKeys(s)),
                                              evictionTime |-> s.blocks[blk].evictionTime]))
            ELSE [s |-> s, removed |-> removed]

\* an evictFn that returns without looking at the heap
evictFnLoopIdle(s, now, removed) == [s |-> s, removed |-> removed]

\* the loop of evictFn under the mutex; removed lists, for every removal, the
\* number of blocks and the block's evictionTime at that moment
RECURSIVE evictFnLoop(_, _, _)
evictFnLoop(s, now, removed) ==
  IF Len(s.heap) = 0 THEN [s |-> s, removed |-> removed]
  ELSE IF Cardinality(MapKeys(s)) <= blockCountSoftLimit
    THEN [s |-> s, removed |-> removed]
  ELSE LET blk == s.heap[1]
       IN IF s.blocks[blk].evictionTime < now
            THEN evictFnLoop(DeleteBlock(BlockHeapPop(s), blk), now,
                             Append(removed, [key |-> blk,
                                              size |-> Cardinality(MapKeys(s)),
                                              evictionTime |-> s.blocks[blk].evictionTime]))
            ELSE [s |-> s, removed |-> removed]

\* the store's fields after a step; BlockParts nothing references are released
CommitStore(s, res) ==
  \E order \in {LiveParts(s)} : \E x \in {Release(s, order)} :
     /\ blocks' = [k \in MapKeys(x) |-> x.blocks[k]]
     /\ strays' = [r \in DOMAIN x.blocks \cap StrayIds |-> x.blocks[r]]
     /\ blockHeap' = x.heap
     /\ parts' = x.parts
     /\ addRes' = [res EXCEPT !.inbound = NewAddress(order, @),
                              !.calls = [i \in 1..Len(@) |-> NewAddress(order, @[i])]]

\* ---- actions of the BlockStore
AddData(inboundSourceID, event, fail, order) ==
  /\ shutdownCh # "panic"
  /\ \E r \in {addData(Store, inboundSourceID, event, clock, fail, order)} :
       CommitStore(r.s, [kind |-> r.kind, key |-> r.key, now |-> clock,
                         inbound |-> r.inbound, calls |-> r.calls,
                         pre |-> IF r.kind = "keyerr" THEN Snapshot ELSE NoSnapshot])
  /\ lastAccessed' = clock
  /\ evictLog' = NoPass
  /\ UNCHANGED <<clock, shutdownCh, evPc, evNow, blockOthers>>

\* evictionLoop, a tick: evictFn reads the time, then waits for the mutex
\* (the select takes the tick whether or not shutdownCh is closed: Go picks among
\* the ready cases at random)
EvictTick ==
  /\ shutdownCh # "panic"
  /\ evPc = "idle"
  /\ evPc' = "waiting"
  /\ evNow' = clock
  /\ UNCHANGED <<clock, blocks, strays, blockHeap, parts, lastAccessed, shutdownCh, addRes,
                 evictLog, blockOthers>>

\* evictFn under the mutex
EvictPass ==
  /\ shutdownCh # "panic"
  /\ evPc = "waiting"
  /\ \E r \in {evictFnLoop(Store, evNow, <<>>)} :
       /\ CommitStore(r.s, NoAdd)
       /\ evictLog' = [now |-> evNow, removed |-> r.removed]
  /\ evPc' = "idle"
  /\ evNow' = 0
  /\ UNCHANGED <<clock, lastAccessed, shutdownCh, blockOthers>>

\* Shutdown: close(store.shutdownCh); closing it a second time panics
Shutdown ==
  /\ shutdownCh # "panic"
  /\ shutdownCh' = IF shutdownCh = "open" THEN "closed" ELSE "panic"
  /\ UNCHANGED <<clock, blocks, strays, blockHeap, parts, lastAccessed, evPc, evNow, addRes,
                 evictLog, blockOthers>>

\* evictionLoop, the select takes shutdownCh: the goroutine returns
EvictExit ==
  /\ shutdownCh = "closed"
  /\ evPc = "idle"
  /\ evPc' = "exited"
  /\ UNCHANGED <<clock, blocks, strays, blockHeap, parts, lastAccessed, shutdownCh, evNow,
                 addRes, evictLog, blockOthers>>

\* IsIdle reads lastAccessed under the mutex and changes nothing
IsIdle(idleDuration) ==
  /\ shutdownCh # "panic"
  /\ mu = "free"
  /\ (clock - lastAccessed > idleDuration) \in BOOLEAN
  /\ UNCHANGED vars

\* NewBlockStore(keyDefinitions, combineFunc, blockCountSoftLimit,
\* blockPartMaxJoinCount, blockWindowTTL, blockPartMaxAge)
NewBlockStore(maxJoinCount) ==
  /\ blockPartMaxJoinCount = maxJoinCount
  /\ blocks = <<>>
  /\ strays = <<>>
  /\ blockHeap = <<>>
  /\ parts = <<>>
  /\ lastAccessed = 0
  /\ shutdownCh = "open"
  /\ evPc = "idle"
  /\ evNow = 0
  /\ addRes = NoAdd
  /\ evictLog = NoPass

\* the store of the repository's configuration example: every part joins once
BlockInit == NewBlockStore(1)

\* ---- the exported operations statement by statement. AddData and evictFn hold
\* store.mu; GetOrAddBlock and EvictExpiredBlocks take no lock, so their
\* statements fall between those of the others. A statement on the map or on
\* the heap is one step.
\* the parts the store holds at most when its operations are followed statement
\* by statement
MaxOpsParts == 1

NoRef == <<>>
NoFail == [kind |-> "none", at |-> 0]

OpsIdle == [addPc |-> "idle", addSrc |-> "s1", addEv |-> [id |-> StrA], addBlk |-> NoRef,
            addNow |-> 0, getPc |-> "idle", getKey |-> NoRef, getBlk |-> NoRef,
            exPc |-> "idle", exNow |-> 0, evBlk |-> NoRef]

\* the store and the goroutines' locals as one value
World == [s |-> Store, o |-> ops]

\* the Block objects the goroutines hold in a local variable
Held(o) == {o.addBlk, o.getBlk, o.evBlk} \ {NoRef}

InHeap(s, ref) == \E i \in 1..Len(s.heap) : s.heap[i] = ref

RenameRef(o, from, to) ==
  [o EXCEPT !.addBlk = IF @ = from THEN to ELSE @,
            !.getBlk = IF @ = from THEN to ELSE @,
            !.evBlk = IF @ = from THEN to ELSE @]

\* the map can let go of the block under key
CanOrphan(s, key) == key \in MapKeys(s) => StrayIds \ DOMAIN s.blocks # {}

\* the map lets go of the block under key; goroutines and heap keep the object
Unmap(w, key) ==
  IF key \notin MapKeys(w.s) THEN w
  ELSE [s |-> Orphan(w.s, key), o |-> RenameRef(w.o, key, FreshStray(w.s))]

\* GetOrAddBlock after the miss: block := &Block{...}; store.blocks[keyValue] = block
StoreBlock(w, key, now) ==
  LET w1 == Unmap(w, key)
  IN [w1 EXCEPT !.s.blocks = [k \in DOMAIN w1.s.blocks \cup {key} |->
                                IF k = key
                                  THEN [key |-> key,
                                        partsBySource |-> [x \in Sources |-> <<>>],
                                        evictionTime |-> now + blockWindowTTL,
                                        heapIndex |-> -1]
                                  ELSE w1.s.blocks[k]]]

RECURSIVE FirstOnly(_, _)
FirstOnly(refs, seen) ==
  IF refs = <<>> THEN <<>>
  ELSE IF Head(refs) \in seen THEN FirstOnly(Tail(refs), seen)
  ELSE <<Head(refs)>> \o FirstOnly(Tail(refs), seen \cup {Head(refs)})

\* Blocks outside the map that neither the heap nor a goroutine references are
\* garbage; the others are named in the order heap and goroutines reach them, so
\* that states differing only in the addresses of the same objects are one state
Settle(w) ==
  LET live == FirstOnly(SelectSeq(w.s.heap \o <<w.o.addBlk, w.o.getBlk, w.o.evBlk>>, IsStray),
                        {})
      old(r) == live[CHOOSE i \in 1..Len(live) : StrayOrder[i] = r]
      new(r) == IF IsStray(r) THEN StrayOrder[CHOOSE i \in 1..Len(live) : live[i] = r] ELSE r
  IN [s |-> [w.s EXCEPT
               !.blocks = [r \in MapKeys(w.s) \cup {StrayOrder[i] : i \in 1..Len(live)} |->
                             IF IsStray(r) THEN w.s.blocks[old(r)] ELSE w.s.blocks[r]],
               !.heap = [i \in 1..Len(w.s.heap) |-> new(w.s.heap[i])]],
      o |-> [w.o EXCEPT !.addBlk = new(@), !.getBlk = new(@), !.evBlk = new(@)]]

CommitOps(w) ==
  \E x \in {Settle(w)} :
     /\ CommitStore(x.s, NoAdd)
     /\ ops' = x.o

\* AddData: store.mu.Lock(), lastAccessed, the key (an error returns at once,
\* through the deferred Unlock), now, and the lookup of GetOrAddBlock
AddDataLock(inboundSourceID, event) ==
  /\ shutdownCh # "panic"
  /\ ops.addPc = "idle"
  /\ mu = "free"
  /\ GetKeyValue(event).ok => Len(parts) < MaxOpsParts
  /\ lastAccessed' = clock
  /\ \E kv \in {GetKeyValue(event)} :
       IF ~kv.ok
         THEN UNCHANGED <<mu, ops>>
         ELSE /\ mu' = "a1"
              /\ ops' = [ops EXCEPT
                           !.addPc = IF kv.key \in DOMAIN blocks THEN "landed" ELSE "missed",
                           !.addSrc = inboundSourceID,
                           !.addEv = event,
                           !.addNow = clock,
                           !.addBlk = IF kv.key \in DOMAIN blocks THEN kv.key ELSE NoRef]
  /\ UNCHANGED <<clock, blocks, strays, blockHeap, parts, shutdownCh, evPc, evNow, addRes,
                 evictLog, opsOthers>>

\* GetOrAddBlock called by AddData: now := time.Now() (its own, later than
\* AddData's); block := &Block{...}; store.blocks[keyValue] = block
AddDataStore ==
  /\ shutdownCh # "panic"
  /\ ops.addPc = "missed"
  /\ \E key \in {GetKeyValue(ops.addEv).key} :
       /\ CanOrphan(Store, key)
       /\ \E w \in {StoreBlock(World, key, clock)} :
            CommitOps([w EXCEPT !.o.addPc = "stored", !.o.addBlk = key])
  /\ UNCHANGED <<clock, mu, lastAccessed, shutdownCh, evPc, evNow, evictLog, opsOthers>>

\* GetOrAddBlock called by AddData: heap.Push(&store.heap, block)
AddDataPush ==
  /\ shutdownCh # "panic"
  /\ ops.addPc = "stored"
  /\ CommitOps([s |-> BlockHeapPush(Store, ops.addBlk),
                o |-> [ops EXCEPT !.addPc = "landed"]])
  /\ UNCHANGED <<clock, mu, lastAccessed, shutdownCh, evPc, evNow, evictLog, opsOthers>>

\* AddData on its block: the inbound part, the loops, block.evictionTime
AddDataJoin ==
  /\ shutdownCh # "panic"
  /\ ops.addPc = "landed"
  /\ Cardinality(DOMAIN parts) < MaxParts
  /\ \E order \in RangeOrders(Sources \ {ops.addSrc}) :
       \E j \in {joinBlock(Store, ops.addSrc, ops.addEv, ops.addBlk, ops.addNow, NoFail,
                           order)} :
         CommitOps([s |-> j.s, o |-> [ops EXCEPT !.addPc = "joined"]])
  /\ UNCHANGED <<clock, mu, lastAccessed, shutdownCh, evPc, evNow, evictLog, opsOthers>>

\* AddData: heap.Fix(&store.heap, block.heapIndex), return nil, the deferred Unlock
AddDataFix ==
  /\ shutdownCh # "panic"
  /\ ops.addPc = "joined"
  /\ CommitOps([s |-> BlockHeapFix(Store, Store.blocks[ops.addBlk].heapIndex),
                o |-> [ops EXCEPT !.addPc = "idle", !.addSrc = OpsIdle.addSrc,
                                  !.addEv = OpsIdle.addEv, !.addBlk = NoRef,
                                  !.addNow = 0]])
  /\ mu' = "free"
  /\ UNCHANGED <<clock, lastAccessed, shutdownCh, evPc, evNow, evictLog, opsOthers>>

\* the exported GetOrAddBlock, which takes no lock: the lookup
CallGetOrAddBlock(keyValue) ==
  /\ shutdownCh # "panic"
  /\ ops.getPc = "idle"
  /\ ops' = IF keyValue \in DOMAIN blocks THEN ops
            ELSE [ops EXCEPT !.getPc = "missed", !.getKey = keyValue]
  /\ UNCHANGED <<clock, mu, blockVars, opsOthers>>

\* now := time.Now(); block := &Block{...}; store.blocks[keyValue] = block
GetOrAddBlockStore ==
  /\ shutdownCh # "panic"
  /\ ops.getPc = "missed"
  /\ CanOrphan(Store, ops.getKey)
  /\ \E w \in {StoreBlock(World, ops.getKey, clock)} :
       CommitOps([w EXCEPT !.o.getPc = "stored", !.o.getBlk = ops.getKey,
                           !.o.getKey = NoRef])
  /\ UNCHANGED <<clock, mu, lastAccessed, shutdownCh, evPc, evNow, evictLog, opsOthers>>

\* heap.Push(&store.heap, block); return block, nil
GetOrAddBlockPush ==
  /\ shutdownCh # "panic"
  /\ ops.getPc = "stored"
  /\ CommitOps([s |-> BlockHeapPush(Store, ops.getBlk),
                o |-> [ops EXCEPT !.getPc = "idle", !.getBlk = NoRef]])
  /\ UNCHANGED <<clock, mu, lastAccessed, shutdownCh, evPc, evNow, evictLog, opsOthers>>

\* the exported EvictExpiredBlocks, which takes no lock: now := time.Now()
EvictExpiredBlocks ==
  /\ shutdownCh # "panic"
  /\ ops.exPc = "idle"
  /\ ops' = [ops EXCEPT !.exPc = "loop", !.exNow = clock]
  /\ UNCHANGED <<clock, mu, blockVars, opsOthers>>

\* for store.heap.Len() > 0 {
EvictExpiredLen ==
  /\ shutdownCh # "panic"
  /\ ops.exPc = "loop"
  /\ ops' = IF Len(blockHeap) > 0
              THEN [ops EXCEPT !.exPc = "head"]
              ELSE [ops EXCEPT !.exPc = "idle", !.exNow = 0]
  /\ UNCHANGED <<clock, mu, blockVars, opsOthers>>

\* if store.heap[0].evictionTime.After(now) { break }; on a heap emptied since
\* the test of its length the index is out of range and the process panics
EvictExpiredHead ==
  /\ shutdownCh # "panic"
  /\ ops.exPc = "head"
  /\ IF Len(blockHeap) = 0
       THEN /\ shutdownCh' = "panic"
            /\ UNCHANGED ops
       ELSE /\ ops' = IF Store.blocks[blockHeap[1]].evictionTime > ops.exNow
                        THEN [ops EXCEPT !.exPc = "idle", !.exNow = 0]
                        ELSE [ops EXCEPT !.exPc = "pop"]
            /\ UNCHANGED shutdownCh
  /\ UNCHANGED <<clock, mu, blocks, strays, blockHeap, parts, lastAccessed, evPc, evNow,
                 addRes, evictLog, opsOthers>>

\* heap.Pop(&store.heap); on a heap emptied in the meantime it panics (Swap(0, -1))
EvictExpiredPop ==
  /\ shutdownCh # "panic"
  /\ ops.exPc = "pop"
  /\ IF Len(blockHeap) = 0
       THEN /\ shutdownCh' = "panic"
            /\ UNCHANGED <<blocks, strays, blockHeap, parts, addRes, ops>>
       ELSE /\ CommitOps([s |-> BlockHeapPop(Store), o |-> [ops EXCEPT !.exPc = "loop"]])
            /\ UNCHANGED shutdownCh
  /\ UNCHANGED <<clock, mu, lastAccessed, evPc, evNow, evictLog, opsOthers>>

\* evictFn: store.mu.Lock()
EvictLock ==
  /\ shutdownCh # "panic"
  /\ evPc = "waiting"
  /\ mu = "free"
  /\ mu' = "ev"
  /\ evPc' = "loop"
  /\ UNCHANGED <<clock, blocks, strays, blockHeap, parts, lastAccessed, shutdownCh, evNow,
                 addRes, evictLog, ops, opsOthers>>

\* evictFn: for store.heap.Len() > 0 {; every way out of the loop returns
\* through the deferred Unlock
EvictLen ==
  /\ shutdownCh # "panic"
  /\ evPc = "loop"
  /\ IF Len(blockHeap) > 0
       THEN /\ evPc' = "limit"
            /\ UNCHANGED <<mu, evNow>>
       ELSE /\ evPc' = "idle"
            /\ evNow' = 0
            /\ mu' = "free"
  /\ UNCHANGED <<clock, blocks, strays, blockHeap, parts, lastAccessed, shutdownCh, addRes,
                 evictLog, ops, opsOthers>>

\* evictFn: if len(store.blocks) <= store.blockCountSoftLimit { return }
EvictLimit ==
  /\ shutdownCh # "panic"
  /\ evPc = "limit"
  /\ IF Cardinality(DOMAIN blocks) > blockCountSoftLimit
       THEN /\ evPc' = "head"
            /\ UNCHANGED <<mu, evNow>>
       ELSE /\ evPc' = "idle"
            /\ evNow' = 0
            /\ mu' = "free"
  /\ UNCHANGED <<clock, blocks, strays, blockHeap, parts, lastAccessed, shutdownCh, addRes,
                 evictLog, ops, opsOthers>>

\* evictFn: blk := store.heap[0]; if blk.evictionTime.Before(now) {...} else { break };
\* on a heap the unlocked EvictExpiredBlocks emptied since the test of its length
\* the index is out of range and the process panics
EvictHead ==
  /\ shutdownCh # "panic"
  /\ evPc = "head"
  /\ IF Len(blockHeap) = 0
       THEN /\ shutdownCh' = "panic"
            /\ UNCHANGED <<mu, evNow, evPc, ops>>
       ELSE /\ UNCHANGED shutdownCh
            /\ IF Store.blocks[blockHeap[1]].evictionTime < evNow
                 THEN /\ evPc' = "pop"
                      /\ ops' = [ops EXCEPT !.evBlk = blockHeap[1]]
                      /\ UNCHANGED <<mu, evNow>>
                 ELSE /\ evPc' = "idle"
                      /\ evNow' = 0
                      /\ mu' = "free"
                      /\ UNCHANGED ops
  /\ UNCHANGED <<clock, blocks, strays, blockHeap, parts, lastAccessed, addRes,
                 evictLog, opsOthers>>

\* evictFn: heap.Pop(&store.heap), whichever block is on top by now
EvictPop ==
  /\ shutdownCh # "panic"
  /\ evPc = "pop"
  /\ IF Len(blockHeap) = 0
       THEN /\ shutdownCh' = "panic"
            /\ UNCHANGED <<blocks, strays, blockHeap, parts, addRes, ops, evPc>>
       ELSE /\ CommitOps([s |-> BlockHeapPop(Store), o |-> ops])
            /\ evPc' = "delete"
            /\ UNCHANGED shutdownCh
  /\ UNCHANGED <<clock, mu, lastAccessed, evNow, evictLog, opsOthers>>

\* evictFn: delete(store.blocks, blk.key), whichever block the map holds there
EvictDelete ==
  /\ shutdownCh # "panic"
  /\ evPc = "delete"
  /\ \E key \in {Store.blocks[ops.evBlk].key} :
       /\ CanOrphan(Store, key)
       /\ CommitOps(Unmap([World EXCEPT !.o.evBlk = NoRef], key))
  /\ evPc' = "loop"
  /\ UNCHANGED <<clock, mu, lastAccessed, shutdownCh, evNow, evictLog, opsOthers>>

\* Two goroutines inside store.blocks at once, one of them writing, with no lock
\* between them: the runtime may see it and end the process (fatal error:
\* concurrent map writes / concurrent map read and map write)
RaceAbort ==
  /\ shutdownCh # "panic"
  /\ \/ /\ ops.getPc = "missed"
        /\ \/ ops.addPc = "missed"
           \/ ops.addPc = "idle" /\ mu = "free"
           \/ evPc \in {"limit", "delete"}
     \/ /\ ops.getPc = "idle"
        /\ ops.addPc = "missed" \/ evPc = "delete"
  /\ shutdownCh' = "panic"
  /\ UNCHANGED <<clock, mu, blocks, strays, blockHeap, parts, lastAccessed, evPc, evNow,
                 addRes, evictLog, ops, opsOthers>>

OpsInit == ops = OpsIdle

\* ---- AddData and the eviction loop, step by step under store.mu
MuCallers == {"a1", "a2"}

\* a Lock that never waits
muFreeAlways(m) == TRUE
\* store.mu.Lock() returns once the mutex is free
muFree(m) == m = "free"

\* the callbacks of the concurrent callers succeed, or the first one fails
MuFails == {[kind |-> "none", at |-> 0], [kind |-> "callback", at |-> 1]}

\* AddData up to its loop: store.mu.Lock(), lastAccessed, the key, the block and
\* the inbound part; what the loop does to the store is fixed here, as no other
\* goroutine touches the store before the Unlock
AddLock(t, inboundSourceID, event, fail, order) ==
  /\ addPc[t] = "idle"
  /\ muFree(mu)
  /\ shutdownCh # "panic"
  /\ Room(event, MaxParts)
  /\ \E r \in {addData(Store, inboundSourceID, event, clock, fail, order)} :
       /\ CommitStore(r.s, [kind |-> r.kind, key |-> r.key, now |-> clock,
                            inbound |-> r.inbound, calls |-> r.calls,
                            pre |-> IF r.kind = "keyerr" THEN Snapshot ELSE NoSnapshot])
       /\ addLeft' = [addLeft EXCEPT ![t] = Len(r.calls)]
  /\ mu' = t
  /\ addPc' = [addPc EXCEPT ![t] = "locked"]
  /\ lastAccessed' = clock
  /\ evictLog' = NoPass
  /\ UNCHANGED <<clock, shutdownCh, evPc, evNow, muOthers>>

\* store.combineFunc(...) and callback(combineResult) on the next stored part
AddCallback(t) ==
  /\ addPc[t] = "locked"
  /\ addLeft[t] > 0
  /\ addPc' = [addPc EXCEPT ![t] = "callback"]
  /\ UNCHANGED <<clock, mu, addLeft, blockVars, muOthers>>

AddCallbackReturn(t) ==
  /\ addPc[t] = "callback"
  /\ addPc' = [addPc EXCEPT ![t] = "locked"]
  /\ addLeft' = [addLeft EXCEPT ![t] = @ - 1]
  /\ UNCHANGED <<clock, mu, blockVars, muOthers>>

\* the return of AddData: defer store.mu.Unlock()
AddUnlock(t) ==
  /\ addPc[t] = "locked"
  /\ addLeft[t] = 0
  /\ addPc' = [addPc EXCEPT ![t] = "idle"]
  /\ mu' = IF mu = t THEN "free" ELSE mu
  /\ UNCHANGED <<clock, addLeft, blockVars, muOthers>>

\* evictFn: store.mu.Lock(), the loop, the deferred Unlock
EvictLocked ==
  /\ muFree(mu)
  /\ EvictPass

MuInit ==
  /\ mu = "free"
  /\ addPc = [t \in MuCallers |-> "idle"]
  /\ addLeft = [t \in MuCallers |-> 0]

\* ==================================================================== Route
MaxConns == 2
MaxOrphans == 1

\* NatConfig: whether Name and Queue are set, and Mode ("nil" when absent)
RouteConfigs == [made : {TRUE}, name : BOOLEAN, queue : BOOLEAN, mode : {"nil", "push", "pull"}]
NoConfig == [made |-> FALSE, name |-> FALSE, queue |-> FALSE, mode |-> "nil"]

JetStreamEnabled(config) == config.queue /\ config.name

\* what the broker may answer to the calls Connect makes
ConnectFails == {"none", "connect", "jetstream", "streaminfo", "addstream"}

\* ---- messages handed to Publish / Request. A string is its code points, a byte
\* slice its bytes, a map its fields; "chan" stands for a value json cannot encode.
Mk(type, val) == [type |-> type, val |-> val]
NoMsg == Mk("none", <<>>)
Messages ==
  { Mk("bytes", <<104, 105>>),
    Mk("string", <<104, 233>>),
    Mk("string", <<34, 60>>),
    Mk("int", <<-12>>),
    Mk("map", [k |-> Mk("string", <<97>>)]),
    Mk("map", [a |-> Mk("int", <<7>>), k |-> Mk("string", <<34, 233>>)]),
    Mk("map", [a |-> Mk("string", <<92, 60>>)]),
    Mk("chan", <<>>) }

\* the keys of the maps above in the order json.Marshal writes them (sorted)
SortedKeys == <<"a", "k">>
KeyChars(k) == IF k = "a" THEN <<97>> ELSE <<107>>

\* []byte(string): the UTF-8 encoding of one code point, of a string
Utf8(cp) ==
  IF cp < 128 THEN <<cp>>
  ELSE IF cp < 2048 THEN <<192 + (cp \div 64), 128 + (cp % 64)>>
  ELSE <<224 + (cp \div 4096), 128 + ((cp \div 64) % 64), 128 + (cp % 64)>>

RECURSIVE Utf8String(_)
Utf8String(s) == IF s = <<>> THEN <<>> ELSE Utf8(Head(s)) \o Utf8String(Tail(s))

HexDigit(n) == IF n < 10 THEN 48 + n ELSE 87 + n

\* encoding/json: a string in quotes; quote and backslash escaped with a
\* backslash; <, > and & written as \u00XX
JsonChar(cp) ==
  IF cp = 34 \/ cp = 92 THEN <<92, cp>>
  ELSE IF cp \in {38, 60, 62} THEN <<92, 117, 48, 48, HexDigit(cp \div 16), HexDigit(cp % 16)>>
  ELSE Utf8(cp)

RECURSIVE JsonChars(_)
JsonChars(s) == IF s = <<>> THEN <<>> ELSE JsonChar(Head(s)) \o JsonChars(Tail(s))

JsonString(s) == <<34>> \o JsonChars(s) \o <<34>>

RECURSIVE Digits(_)
Digits(n) == IF n < 10 THEN <<48 + n>> ELSE Digits(n \div 10) \o <<48 + (n % 10)>>

JsonInt(n) == IF n < 0 THEN <<45>> \o Digits(0 - n) ELSE Digits(n)

\* json.Marshal: the bytes, or an error for a value it cannot encode
RECURSIVE JsonMarshal(_)
RECURSIVE JsonFields(_, _, _)
JsonFields(m, keys, first) ==
  IF keys = <<>> THEN [ok |-> TRUE, data |-> <<>>]
  ELSE IF Head(keys) \notin DOMAIN m THEN JsonFields(m, Tail(keys), first)
  ELSE LET v == JsonMarshal(m[Head(keys)])
           rest == JsonFields(m, Tail(keys), FALSE)
       IN IF ~v.ok \/ ~rest.ok THEN [ok |-> FALSE, data |-> <<>>]
          ELSE [ok |-> TRUE,
                data |-> (IF first THEN <<>> ELSE <<44>>)
                           \o JsonString(KeyChars(Head(keys))) \o <<58>> \o v.data
                           \o rest.data]

JsonMarshal(v) ==
  IF v.type = "string" THEN [ok |-> TRUE, data |-> JsonString(v.val)]
  ELSE IF v.type = "int" THEN [ok |-> TRUE, data |-> JsonInt(v.val[1])]
  ELSE IF v.type = "map"
    THEN LET f == JsonFields(v.val, SortedKeys, TRUE)
         IN IF f.ok THEN [ok |-> TRUE, data |-> <<123>> \o f.data \o <<125>>] ELSE f
  ELSE [ok |-> FALSE, data |-> <<>>]

\* toBytes: in the []byte case `v = data` assigns the still nil result to the
\* case variable, so the nil slice is what is returned
toBytes(msg) ==
  IF msg.type = "bytes" THEN [ok |-> TRUE, data |-> <<>>]
  ELSE IF msg.type = "string" THEN [ok |-> TRUE, data |-> Utf8String(msg.val)]
  ELSE JsonMarshal(msg)

\* json.Unmarshal into an any: a JSON number comes back as a float64
Decoded(v) == IF v.type = "int" THEN Mk("float64", v.val) ELSE v

\* MessageMap: json.Unmarshal(data, &mapping) with mapping a map[string]any. Only
\* a JSON object decodes; a JSON string or number, an empty payload and bytes that
\* are no JSON are an error. The objects are those the maps of Messages encode to.
JsonUnmarshal(data) ==
  LET hits == {m \in Messages : m.type = "map" /\ JsonMarshal(m).ok
                                /\ JsonMarshal(m).data = data}
  IN IF hits = {} THEN [ok |-> FALSE, val |-> NoMsg]
     ELSE LET m == CHOOSE x \in hits : TRUE
          IN [ok |-> TRUE,
              val |-> Mk("map", [k \in DOMAIN m.val |-> Decoded(m.val[k])])]

\* two maps with the same keys and, under each, the same string or the same number
StructurallyEqual(m1, m2) ==
  /\ m1.type = "map" /\ m2.type = "map"
  /\ DOMAIN m1.val = DOMAIN m2.val
  /\ \A k \in DOMAIN m1.val : Decoded(m1.val[k]) = Decoded(m2.val[k])

\* The route as one value: the fields Connect and its callers work on.
RouteRec == [nc |-> nc, js |-> js, stream |-> stream, conns |-> conns, jsUsed |-> jsUsed]

NoSub == [via |-> "none", active |-> FALSE, conn |-> 0]
NoCallYet == [op |-> "none", result |-> "none", msg |-> NoMsg, data |-> <<>>, via |-> "none"]
Outcome(op, result, msg, data, via) ==
  [op |-> op, result |-> result, msg |-> msg, data |-> data, via |-> via]

\* nc.IsConnected(): a connection that is draining still counts as connected
IsConnected(c) == c \in {"connected", "draining"}

\* the connections a route opens, in the order it opens them; r.nc and r.js,
\* when set, are of the last one
ConnIds == 1..MaxConns

\* Connect without the test of r.nc.IsConnected()
connectAgain(r, config, fail) ==
  IF fail = "connect" THEN [r |-> [r EXCEPT !.nc = "nil"], err |-> "connect"]
  ELSE LET r1 == [r EXCEPT !.nc = "connected", !.conns = @ + 1]
       IN IF ~JetStreamEnabled(config) THEN [r |-> r1, err |-> "none"]
          ELSE IF fail = "jetstream"
            THEN [r |-> [r1 EXCEPT !.js = "nil"], err |-> "jetstream"]
          ELSE LET r2 == [r1 EXCEPT !.js = "ready", !.jsUsed = TRUE]
               IN IF fail = "streaminfo" THEN [r |-> r2, err |-> "streaminfo"]
                  ELSE IF r2.stream THEN [r |-> r2, err |-> "none"]
                  ELSE IF fail = "addstream" THEN [r |-> r2, err |-> "addstream"]
                  ELSE [r |-> [r2 EXCEPT !.stream = TRUE], err |-> "none"]

\* Connect under r.mu
connect(r, config, fail) ==
  IF IsConnected(r.nc) THEN [r |-> r, err |-> "none"]
  ELSE IF fail = "connect" THEN [r |-> [r EXCEPT !.nc = "nil"], err |-> "connect"]
  ELSE LET r1 == [r EXCEPT !.nc = "connected", !.conns = @ + 1]
       IN IF ~JetStreamEnabled(config) THEN [r |-> r1, err |-> "none"]
          ELSE IF fail = "jetstream"
            THEN [r |-> [r1 EXCEPT !.js = "nil"], err |-> "jetstream"]
          ELSE LET r2 == [r1 EXCEPT !.js = "ready", !.jsUsed = TRUE]
               IN IF fail = "streaminfo" THEN [r |-> r2, err |-> "streaminfo"]
                  ELSE IF r2.stream THEN [r |-> r2, err |-> "none"]
                  ELSE IF fail = "addstream" THEN [r |-> r2, err |-> "addstream"]
                  ELSE [r |-> [r2 EXCEPT !.stream = TRUE], err |-> "none"]

\* Connect opens a connection unless one is up
Opens(r, fail) == ~IsConnected(r.nc) /\ fail # "connect"

NoPend == [op |-> "none", msg |-> NoMsg, data |-> <<>>]

\* Publish with Connect called before toBytes
publishConnectFirst(r, config, op, msg, fail) ==
  LET c == connect(r, config, fail)
      enc == toBytes(msg)
  IN IF c.err # "none" THEN [r |-> c.r, out |-> Outcome(op, "connect", msg, <<>>, "none")]
     ELSE IF ~enc.ok THEN [r |-> c.r, out |-> Outcome(op, "encode", msg, <<>>, "none")]
     ELSE [r |-> c.r, out |-> Outcome(op, "pending", msg, enc.data, "none")]

\* Publish / PublishWithSuffix / Request up to the return of Connect: toBytes, then
\* Connect under r.mu; "pending" when the call goes on to its send
publish(r, config, op, msg, fail) ==
  LET enc == toBytes(msg)
  IN IF ~enc.ok THEN [r |-> r, out |-> Outcome(op, "encode", msg, <<>>, "none")]
     ELSE LET c == connect(r, config, fail)
          IN IF c.err # "none"
               THEN [r |-> c.r, out |-> Outcome(op, "connect", msg, <<>>, "none")]
               ELSE [r |-> c.r, out |-> Outcome(op, "pending", msg, enc.data, "none")]

\* the handle the send of a call goes through
sendVia(config, op) ==
  IF op = "request" THEN "nc"
  ELSE IF JetStreamEnabled(config) THEN "js" ELSE "nc"

\* r.js.Publish / r.nc.Publish / r.nc.RequestWithContext on the route as it is by
\* then, with no lock: a nil JetStream context is a nil dereference; a nil or
\* closed connection is the library's error; otherwise the broker decides
send(r, config, p, fail) ==
  LET via == sendVia(config, p.op)
  IN IF via = "js" /\ r.js = "nil" THEN Outcome(p.op, "panic", p.msg, <<>>, via)
     ELSE IF r.nc = "closed" \/ (via = "nc" /\ r.nc = "nil") \/ fail
       THEN Outcome(p.op, "error", p.msg, <<>>, via)
     ELSE Outcome(p.op, "ok", p.msg, p.data, via)

\* subscribePush / subscribePull on the route as it is by then: the new r.sub
\* (absent when the call failed) and how the call ended. A connection that is
\* closed or draining takes no subscription.
subscribeWith(r, config, fail) ==
  LET made(via) == [via |-> via, active |-> TRUE, conn |-> r.conns]
  IN IF config.mode = "pull"
       THEN IF r.js = "nil" THEN [sub |-> NoSub, result |-> "panic", via |-> "js"]
            ELSE IF fail \/ r.nc \in {"closed", "draining"}
              THEN [sub |-> NoSub, result |-> "error", via |-> "js"]
            ELSE [sub |-> made("pull"), result |-> "ok", via |-> "js"]
     ELSE IF config.queue
       THEN IF r.js = "nil" THEN [sub |-> NoSub, result |-> "panic", via |-> "js"]
            ELSE IF fail \/ r.nc \in {"closed", "draining"}
              THEN [sub |-> NoSub, result |-> "error", via |-> "js"]
            ELSE [sub |-> made("js"), result |-> "ok", via |-> "js"]
     ELSE IF fail \/ r.nc \in {"nil", "closed", "draining"}
       THEN [sub |-> NoSub, result |-> "error", via |-> "nc"]
     ELSE [sub |-> made("nc"), result |-> "ok", via |-> "nc"]

SetRoute(r) ==
  /\ nc' = r.nc
  /\ js' = r.js
  /\ stream' = r.stream
  /\ conns' = r.conns
  /\ jsUsed' = r.jsUsed

\* ---- the goroutines of subscribePull; each has the locals of its call of
\* GetCreateOrUpdate under its name
Fetchers == GcThreads
FreeFetchers == {t \in Fetchers : fetcher[t] = "none"}
NextFetcher == IF fetcher[GcOrder[1]] = "none" THEN GcOrder[1] ELSE GcOrder[2]

\* the subscriptions of the goroutines once Route.sub names another (or none)
Replaced ==
  [t \in Fetchers |->
     IF fetchSub[t].st = "current"
       THEN [fetchSub[t] EXCEPT !.st = IF sub.active THEN "orphan" ELSE "closed"]
       ELSE fetchSub[t]]

\* the subscriptions left behind, over all connections
RECURSIVE OrphansUpTo(_)
OrphansUpTo(c) == IF c = 0 THEN 0 ELSE orphans[c] + OrphansUpTo(c - 1)
OrphanCount == OrphansUpTo(MaxConns)

\* nc.Close() on connection c, at once or at the end of its drain: the
\* subscriptions made on c end, those of other connections stay
ClosedConn(c) ==
  /\ nc' = "closed"
  /\ sub' = IF sub.conn = c THEN [sub EXCEPT !.active = FALSE] ELSE sub
  /\ orphans' = [k \in ConnIds |-> IF k = c THEN 0 ELSE orphans[k]]
  /\ fetchSub' = [t \in Fetchers |->
                    IF fetchSub[t].st = "orphan" /\ fetchSub[t].conn = c
                      THEN [fetchSub[t] EXCEPT !.st = "closed"]
                      ELSE fetchSub[t]]

\* the goroutine's subscription still delivers
SubActive(t) ==
  \/ fetchSub[t].st = "current" /\ sub.active
  \/ fetchSub[t].st = "orphan"

\* the assignment to r.sub and, after a successful PullSubscribe, the new goroutine
Subscribed(s) ==
  /\ sub.active => OrphanCount < MaxOrphans
  /\ sub' = s.sub
  /\ orphans' = IF sub.active THEN [orphans EXCEPT ![sub.conn] = @ + 1] ELSE orphans
  /\ IF s.result = "ok" /\ cfg.mode = "pull"
       THEN /\ FreeFetchers # {}
            /\ fetcher' = [fetcher EXCEPT ![NextFetcher] = "check"]
            /\ fetchSub' = [Replaced EXCEPT
                              ![NextFetcher] = [st |-> "current", conn |-> s.sub.conn]]
       ELSE /\ fetchSub' = Replaced
            /\ UNCHANGED fetcher

\* ---- actions of the Route
\* NewRoute(config, callback, opts...) with or without WithEnableChannels(true);
\* cb says whether the callback handed in is a function or nil
NewRouteWith(config, enable, cb) ==
  /\ ~cfg.made
  /\ cfg' = config
  /\ enableChannels' = enable
  /\ callback' = cb
  /\ UNCHANGED <<nc, js, stream, sub, orphans, conns, jsUsed, lastCall, pend, serviceVars,
                 fetcher, ctxDone, batch, fetchSub, msgChan, chanLen, handed>>

\* NewRoute(config, callback) with a callback and no option
NewRoute(config) ==
  /\ ~cfg.made
  /\ NewRouteWith(config, FALSE, TRUE)

\* an assignment to the exported field Route.Callback, as
\* NewRouteSubscriberUsingSelector makes after NewRouteUsingSelector has built
\* the route with a nil callback
SetCallback(cb) ==
  /\ cfg.made
  /\ callback # cb
  /\ callback' = cb
  /\ UNCHANGED <<cfg, nc, js, stream, sub, orphans, conns, jsUsed, lastCall, pend,
                 serviceVars, fetcher, enableChannels, ctxDone, batch, fetchSub, msgChan,
                 chanLen, handed>>

Connect(fail) ==
  /\ cfg.made
  /\ Opens(RouteRec, fail) => conns < MaxConns
  /\ \E c \in {connect(RouteRec, cfg, fail)} :
       /\ SetRoute(c.r)
       /\ lastCall' = Outcome("connect", IF c.err = "none" THEN "ok" ELSE c.err,
                              NoMsg, <<>>, "none")
  /\ UNCHANGED <<cfg, sub, orphans, pend, routeOthers>>

\* a call up to the return of its Connect: it returns an error, or goes on
Begun(p) ==
  /\ SetRoute(p.r)
  /\ IF p.out.result = "pending"
       THEN /\ pend' = [op |-> p.out.op, msg |-> p.out.msg, data |-> p.out.data]
            /\ lastCall' = NoCallYet
       ELSE /\ lastCall' = p.out
            /\ UNCHANGED pend

\* Publish: toBytes, then Connect
Publish(msg, fail) ==
  /\ cfg.made
  /\ pend.op = "none"
  /\ (toBytes(msg).ok /\ Opens(RouteRec, fail)) => conns < MaxConns
  /\ Begun(publish(RouteRec, cfg, "publish", msg, fail))
  /\ UNCHANGED <<cfg, sub, orphans, routeOthers>>

PublishWithSuffix(msg, fail) ==
  /\ cfg.made
  /\ pend.op = "none"
  /\ (toBytes(msg).ok /\ Opens(RouteRec, fail)) => conns < MaxConns
  /\ Begun(publish(RouteRec, cfg, "publishWithSuffix", msg, fail))
  /\ UNCHANGED <<cfg, sub, orphans, routeOthers>>

\* Request: toBytes, then Connect
Request(msg, fail) ==
  /\ cfg.made
  /\ pend.op = "none"
  /\ (toBytes(msg).ok /\ Opens(RouteRec, fail)) => conns < MaxConns
  /\ Begun(publish(RouteRec, cfg, "request", msg, fail))
  /\ UNCHANGED <<cfg, sub, orphans, routeOthers>>

\* the rest of Publish, PublishWithSuffix or Request, outside r.mu: js.Publish,
\* nc.Publish or nc.RequestWithContext
Send(fail) ==
  /\ pend.op \in {"publish", "publishWithSuffix", "request"}
  /\ lastCall' = send(RouteRec, cfg, pend, fail)
  /\ jsUsed' = (jsUsed \/ sendVia(cfg, pend.op) = "js")
  /\ pend' = NoPend
  /\ UNCHANGED <<cfg, nc, js, stream, sub, orphans, conns, routeOthers>>

\* Subscribe: Connect
Subscribe(fail) ==
  /\ cfg.made
  /\ pend.op = "none"
  /\ Opens(RouteRec, fail) => conns < MaxConns
  /\ \E c \in {connect(RouteRec, cfg, fail)} :
       /\ SetRoute(c.r)
       /\ IF c.err # "none"
            THEN /\ lastCall' = Outcome("subscribe", "connect", NoMsg, <<>>, "none")
                 /\ UNCHANGED pend
            ELSE /\ pend' = [NoPend EXCEPT !.op = "subscribe"]
                 /\ lastCall' = NoCallYet
  /\ UNCHANGED <<cfg, sub, orphans, routeOthers>>

\* the rest of Subscribe, outside r.mu: subscribePush or subscribePull. A push
\* subscription assigns r.sub whatever the broker answered; a pull subscription
\* only on success, and then starts its goroutine.
SubscribeWith(fail) ==
  /\ pend.op = "subscribe"
  /\ pend' = NoPend
  /\ \E s \in {subscribeWith(RouteRec, cfg, fail)} :
       /\ jsUsed' = (jsUsed \/ s.via = "js")
       /\ lastCall' = Outcome("subscribe", s.result, NoMsg, <<>>, s.via)
       /\ IF s.result = "panic" \/ (s.result = "error" /\ cfg.mode = "pull")
            THEN UNCHANGED <<sub, orphans, fetcher, fetchSub>>
            ELSE Subscribed(s)
  /\ UNCHANGED <<cfg, nc, js, stream, conns, serviceVars, enableChannels, callback, handed, ctxDone, batch,
                 msgChan, chanLen>>

\* Unsubscribe under r.mu
Unsubscribe(fail) ==
  /\ cfg.made
  /\ IF nc = "nil" \/ sub.via = "none"
       THEN /\ lastCall' = Outcome("unsubscribe", "notsubscribed", NoMsg, <<>>, "none")
            /\ UNCHANGED sub
       ELSE IF fail \/ ~sub.active
       THEN /\ lastCall' = Outcome("unsubscribe", "error", NoMsg, <<>>, "none")
            /\ UNCHANGED sub
       ELSE /\ lastCall' = Outcome("unsubscribe", "ok", NoMsg, <<>>, "none")
            /\ sub' = [sub EXCEPT !.active = FALSE]
  /\ UNCHANGED <<cfg, nc, js, stream, orphans, conns, jsUsed, pend, routeOthers>>

\* Disconnect under r.mu: r.nc.Drain() and r.nc.Close(), which end the
\* subscriptions made on r.nc. Drain returns an error for a connection that has
\* gone since the test of IsConnected, and closes it
Disconnect(fail) ==
  /\ cfg.made
  /\ IF ~IsConnected(nc)
       THEN /\ lastCall' = Outcome("disconnect", "notconnected", NoMsg, <<>>, "none")
            /\ UNCHANGED <<nc, sub, orphans, fetchSub>>
       ELSE /\ lastCall' = Outcome("disconnect", IF fail THEN "error" ELSE "ok",
                                   NoMsg, <<>>, "none")
            /\ ClosedConn(conns)
  /\ UNCHANGED <<cfg, js, stream, conns, jsUsed, pend, serviceVars, fetcher,
                 enableChannels, callback, handed, ctxDone, batch, msgChan, chanLen>>

\* Drain, which takes no lock, up to its first read of r.nc: nil returns nil
Drain ==
  /\ cfg.made
  /\ pend.op = "none"
  /\ IF nc = "nil"
       THEN /\ lastCall' = Outcome("drain", "ok", NoMsg, <<>>, "none")
            /\ UNCHANGED pend
       ELSE /\ pend' = [NoPend EXCEPT !.op = "drain"]
            /\ lastCall' = NoCallYet
  /\ UNCHANGED <<cfg, nc, js, stream, sub, orphans, conns, jsUsed, routeOthers>>

\* Drain: r.nc.IsConnected() on a second read of the field, which a failed
\* Connect has set to nil since; not connected returns nil
DrainConnected ==
  /\ pend.op = "drain"
  /\ IF nc = "nil"
       THEN /\ lastCall' = Outcome("drain", "panic", NoMsg, <<>>, "none")
            /\ pend' = NoPend
     ELSE IF ~IsConnected(nc)
       THEN /\ lastCall' = Outcome("drain", "ok", NoMsg, <<>>, "none")
            /\ pend' = NoPend
       ELSE /\ pend' = [NoPend EXCEPT !.op = "drainCall"]
            /\ UNCHANGED lastCall
  /\ UNCHANGED <<cfg, nc, js, stream, sub, orphans, conns, jsUsed, routeOthers>>

\* Drain: r.nc.Drain() on a third read of the field. The connection starts to
\* drain and stays connected; one that is draining already returns nil, one that
\* is closed an error, and one that has lost its broker is closed with an error
DrainCall ==
  /\ pend.op = "drainCall"
  /\ pend' = NoPend
  /\ lastCall' = Outcome("drain",
                         IF nc = "nil" THEN "panic"
                         ELSE IF IsConnected(nc) THEN "ok" ELSE "error",
                         NoMsg, <<>>, "none")
  /\ IF nc = "connected" THEN nc' = "draining" /\ UNCHANGED <<sub, orphans, fetchSub>>
     ELSE IF nc = "lost" THEN ClosedConn(conns)
     ELSE UNCHANGED <<nc, sub, orphans, fetchSub>>
  /\ UNCHANGED <<cfg, js, stream, conns, jsUsed, serviceVars, fetcher,
                 enableChannels, callback, handed, ctxDone, batch, msgChan, chanLen>>

\* the connection has drained: its subscriptions have ended and it closes
DrainDone ==
  /\ nc = "draining"
  /\ ClosedConn(conns)
  /\ UNCHANGED <<cfg, js, stream, conns, jsUsed, lastCall, pend, serviceVars, fetcher,
                 enableChannels, callback, handed, ctxDone, batch, msgChan, chanLen>>

\* Flush, which takes no lock: an error without a connection, else r.nc.Flush()
Flush(fail) ==
  /\ cfg.made
  /\ lastCall' = Outcome("flush",
                         IF nc = "nil" THEN "notconnected"
                         ELSE IF ~IsConnected(nc) \/ fail THEN "error" ELSE "ok",
                         NoMsg, <<>>, "none")
  /\ UNCHANGED <<cfg, nc, js, stream, sub, orphans, conns, jsUsed, pend, routeOthers>>

\* the broker goes away: nc.IsConnected() turns false
ConnectionLost ==
  /\ nc = "connected"
  /\ nc' = "lost"
  /\ UNCHANGED <<cfg, js, stream, sub, orphans, conns, jsUsed, lastCall, pend, routeOthers>>

\* ---- the goroutines subscribePull starts, their ctx, and the channels of the
\* subject in Route.Channels
MaxBatch == 2
channelTTL == 2
Subject == <<"a">>

\* a goroutine has panicked: the process has ended
Crashed == \E t \in Fetchers : fetcher[t] = "panic"

\* what sub.Fetch may return: nothing in time, an error, or n messages
FetchResults2 ==
  [err : {"timeout", "error"}, n : {0}] \cup [err : {"none"}, n : 1..MaxBatch]

\* the caller cancels the ctx it gave to Subscribe
CancelCtx ==
  /\ cfg.made
  /\ ~Crashed
  /\ ~ctxDone
  /\ ctxDone' = TRUE
  /\ UNCHANGED <<clock, fetcher, enableChannels, callback, handed, batch, fetchSub, msgChan, chanLen,
                 pullOthers>>

\* top of the loop: the select on ctx.Done()
FetcherCheck(t) ==
  /\ ~Crashed
  /\ fetcher[t] = "check"
  /\ fetcher' = [fetcher EXCEPT ![t] = IF ctxDone THEN "exited" ELSE "fetch"]
  /\ UNCHANGED <<clock, pullRest, pullOthers>>

\* sub.Fetch(batchSize, MaxWait(5s)): a timeout or an error goes round the loop
\* again; a subscription that is no longer active only returns errors
FetcherFetch(t, res) ==
  /\ ~Crashed
  /\ fetcher[t] = "fetch"
  /\ ~SubActive(t) => res.err = "error"
  /\ IF res.err # "none"
       THEN fetcher' = [fetcher EXCEPT ![t] = "check"] /\ UNCHANGED batch
       ELSE /\ fetcher' = [fetcher EXCEPT ![t] = "deliver"]
            /\ batch' = [batch EXCEPT ![t] = res.n]
  /\ UNCHANGED <<clock, enableChannels, callback, handed, ctxDone, fetchSub, msgChan, chanLen, pullOthers>>

\* one message of the batch handed over
delivered(t) ==
  /\ batch' = [batch EXCEPT ![t] = @ - 1]
  /\ fetcher' = [fetcher EXCEPT ![t] = IF batch[t] = 1 THEN "check" ELSE "deliver"]

\* the loop over the batch, one message: `if r.Callback != nil`; with a nil
\* Route.Callback the message is skipped; otherwise it goes to the callback
\* (a second read of the field), or with channels enabled to
\* publishWithChannel, whose GetCreateOrUpdate(subject, ..., channelTTL) begins
\* with the read of c.items[key] under the read lock
FetcherDeliver(t) ==
  /\ ~Crashed
  /\ fetcher[t] = "deliver"
  /\ IF ~callback
       THEN /\ delivered(t)
            /\ handed' = "skipped"
            /\ UNCHANGED gcEntry
       ELSE IF enableChannels
       THEN /\ fetcher' = [fetcher EXCEPT ![t] = "read"]
            /\ gcEntry' = [gcEntry EXCEPT ![t] = ItemOf(Cache, Subject)]
            /\ UNCHANGED <<batch, handed>>
       ELSE /\ fetcher' = [fetcher EXCEPT ![t] = "call"]
            /\ UNCHANGED <<batch, handed, gcEntry>>
  /\ UNCHANGED <<clock, entries, items, itemsHeap, cleanItem, msgChan, chanLen,
                 channelRest>>

\* r.Callback(ctx, envelop): the field is read again; the call of a Callback set
\* to nil since the test panics
FetcherCall(t) ==
  /\ ~Crashed
  /\ fetcher[t] = "call"
  /\ IF callback
       THEN /\ delivered(t)
            /\ handed' = "callback"
       ELSE /\ fetcher' = [fetcher EXCEPT ![t] = "panic"]
            /\ UNCHANGED <<batch, handed>>
  /\ UNCHANGED <<clock, entries, items, itemsHeap, cleanItem, gcEntry, msgChan, chanLen,
                 channelRest>>

\* GetCreateOrUpdate: the first, unlocked test `exists && time.Now().Before(entry.evictAt)`
ChannelCheck(t) ==
  /\ ~Crashed
  /\ fetcher[t] = "read"
  /\ fetcher' = [fetcher EXCEPT ![t] =
                   IF gcEntry[t] # Nil /\ clock < entries[gcEntry[t]].evictAt
                     THEN "hit" ELSE "checked"]
  /\ UNCHANGED <<clock, entries, items, itemsHeap, cleanItem, gcEntry, batch, msgChan,
                 chanLen, channelOthers>>

\* publishWithChannel with what GetCreateOrUpdate returned: `ch.(chan ...)` panics
\* on nil; otherwise the goroutine goes on to `msgChan <- msg`
Got(t, value) ==
  /\ fetcher' = [fetcher EXCEPT ![t] = IF value = Nil THEN "panic" ELSE "send"]
  /\ msgChan' = [msgChan EXCEPT ![t] = value]

\* GetCreateOrUpdate: `return entry.value, nil` of the fast path, a second read of
\* the entry with no lock held
ChannelReturn(t) ==
  /\ ~Crashed
  /\ fetcher[t] = "hit"
  /\ Got(t, entries[gcEntry[t]].value)
  /\ Commit(Cache, cleanItem, [gcEntry EXCEPT ![t] = Nil])
  /\ UNCHANGED <<clock, batch, chanLen, channelOthers>>

\* the channels no entry and no goroutine refers to
FreeChans ==
  {c \in CacheValues :
     /\ \A e \in EntryIds : entries[e].used => entries[e].value # c
     /\ \A t \in Fetchers : msgChan[t] # c}
NewChan == CHOOSE c \in FreeChans : \A d \in FreeChans : c <= d

\* GetCreateOrUpdate under the write lock with publishWithChannel's fetchFunc:
\* the second test; then fetchFunc returns the value of the entry read before, or
\* a new channel when there was none; a nil value is returned uncached; update
\* works on c.items[key], add stores a new entry
ChannelLocked(t) ==
  /\ ~Crashed
  /\ fetcher[t] = "checked"
  /\ LET e == gcEntry[t]
         exists == e # Nil
     IN IF exists /\ clock < entries[e].evictAt
          THEN /\ Got(t, entries[e].value)
               /\ Commit(Cache, cleanItem, [gcEntry EXCEPT ![t] = Nil])
               /\ UNCHANGED chanLen
          ELSE IF exists /\ entries[e].value = Nil
          THEN /\ Got(t, Nil)
               /\ Commit(Cache, cleanItem, [gcEntry EXCEPT ![t] = Nil])
               /\ UNCHANGED chanLen
          ELSE IF exists /\ ItemOf(Cache, Subject) = Nil
          THEN \* update dereferences c.items[key], which is nil
               /\ Got(t, Nil)
               /\ Commit(Cache, cleanItem, [gcEntry EXCEPT ![t] = Nil])
               /\ UNCHANGED chanLen
          ELSE IF exists
          THEN /\ Got(t, entries[e].value)
               /\ Commit(update(Cache, Subject, entries[e].value, channelTTL, clock),
                         cleanItem, [gcEntry EXCEPT ![t] = Nil])
               /\ UNCHANGED chanLen
          ELSE /\ FreeIds(Cache) # {}
               /\ FreeChans # {}
               /\ Got(t, NewChan)
               /\ Commit(add(Cache, Subject, NewChan, channelTTL, clock),
                         cleanItem, [gcEntry EXCEPT ![t] = Nil])
               /\ chanLen' = [chanLen EXCEPT ![NewChan] = 0]
  /\ UNCHANGED <<clock, batch, channelOthers>>

\* publishWithChannel: `msgChan <- msg`, which waits while the buffer is full
FetcherSend(t) ==
  /\ ~Crashed
  /\ fetcher[t] = "send"
  /\ chanLen[msgChan[t]] < 1
  /\ chanLen' = [chanLen EXCEPT ![msgChan[t]] = @ + 1]
  /\ msgChan' = [msgChan EXCEPT ![t] = Nil]
  /\ delivered(t)
  /\ handed' = "channel"
  /\ UNCHANGED <<clock, enableChannels, callback, ctxDone, fetchSub, pullOthers>>

\* a reader outside the transport receives from a channel of the subject
ChannelRead(c) ==
  /\ ~Crashed
  /\ chanLen[c] > 0
  /\ chanLen' = [chanLen EXCEPT ![c] = @ - 1]
  /\ UNCHANGED <<clock, fetcher, enableChannels, callback, handed, ctxDone, batch, fetchSub, msgChan,
                 pullOthers>>

\* ---- concurrent callers of one Route: Connect under r.mu, then the call itself
UseCallers == {"u1", "u2"}
UseOps == {"connect", "publish", "request", "subscribe"}

\* the handle a method calls once Connect has returned nil
useVia(config, op) ==
  IF op = "request" THEN "nc"
  ELSE IF op = "publish" THEN (IF JetStreamEnabled(config) THEN "js" ELSE "nc")
  ELSE IF config.mode = "pull" \/ config.queue THEN "js"
  ELSE "nc"

\* the Connect a method begins with (Connect itself, or the call of it in
\* Publish, Request and Subscribe), under r.mu from its first to its last line
UseStart(t, op, fail) ==
  /\ cfg.made
  /\ usePc[t] = "idle"
  /\ Opens(RouteRec, fail) => conns < MaxConns
  /\ useOp' = [useOp EXCEPT ![t] = op]
  /\ \E c \in {connect(RouteRec, cfg, fail)} :
       /\ SetRoute(c.r)
       /\ IF c.err # "none"
            THEN /\ usePc' = [usePc EXCEPT ![t] = "done"]
                 /\ useOut' = [useOut EXCEPT ![t] = c.err]
            ELSE IF op = "connect"
            THEN /\ usePc' = [usePc EXCEPT ![t] = "done"]
                 /\ useOut' = [useOut EXCEPT ![t] = "ok"]
            ELSE /\ usePc' = [usePc EXCEPT ![t] = "connected"]
                 /\ UNCHANGED useOut
  /\ UNCHANGED <<cfg, sub, orphans, lastCall, pend, pullVars, clock, useOthers,
                 entries, items, itemsHeap, closed, cleanPc, cleanNow, cleanItem, lastSet>>

\* the rest of Publish, Request or Subscribe: the call on r.js or r.nc, outside
\* r.mu, and what it returns. A push subscription assigns r.sub whatever the
\* broker answered, nil with an error; a pull subscription only on success.
UseProceed(t, fail) ==
  /\ usePc[t] = "connected"
  /\ usePc' = [usePc EXCEPT ![t] = "done"]
  /\ jsUsed' = (jsUsed \/ useVia(cfg, useOp[t]) = "js")
  /\ IF useOp[t] = "subscribe"
       THEN \E s \in {subscribeWith(RouteRec, cfg, fail)} :
              /\ useOut' = [useOut EXCEPT ![t] = s.result]
              /\ IF s.result = "panic" \/ (s.result = "error" /\ cfg.mode = "pull")
                   THEN UNCHANGED <<sub, orphans, fetcher, fetchSub>>
                   ELSE Subscribed(s)
       ELSE /\ useOut' = [useOut EXCEPT
                            ![t] = send(RouteRec, cfg, [NoPend EXCEPT !.op = useOp[t]],
                                        fail).result]
            /\ UNCHANGED <<sub, orphans, fetcher, fetchSub>>
  /\ UNCHANGED <<cfg, nc, js, stream, conns, lastCall, pend, useOp, enableChannels,
                 callback, handed, ctxDone, batch, msgChan, chanLen, clock, useOthers,
                 entries, items, itemsHeap, closed, cleanPc, cleanNow, cleanItem, lastSet>>

UseInit ==
  /\ usePc = [t \in UseCallers |-> "idle"]
  /\ useOp = [t \in UseCallers |-> "none"]
  /\ useOut = [t \in UseCallers |-> "none"]

RouteInit ==
  /\ enableChannels = FALSE
  /\ callback = FALSE
  /\ handed = "none"
  /\ ctxDone = FALSE
  /\ fetcher = [t \in Fetchers |-> "none"]
  /\ batch = [t \in Fetchers |-> 0]
  /\ fetchSub = [t \in Fetchers |-> [st |-> "none", conn |-> 0]]
  /\ msgChan = [t \in Fetchers |-> Nil]
  /\ chanLen = [c \in CacheValues |-> 0]
  /\ cfg = NoConfig
  /\ nc = "nil"
  /\ js = "nil"
  /\ stream = FALSE
  /\ sub = NoSub
  /\ orphans = [c \in ConnIds |-> 0]
  /\ conns = 0
  /\ jsUsed = FALSE
  /\ lastCall = NoCallYet
  /\ pend = NoPend

\* ================================================= per-method configuration
\* MethodConfig values: TTL (0 means use default) and Cacheable
MethodTTLs == {0, 1}
NoMethodConfig == [set |-> FALSE, TTL |-> 0, Cacheable |-> FALSE]
MethodConfigs == [set : {TRUE}, TTL : MethodTTLs, Cacheable : BOOLEAN]
ReadPaths == {"CallCached", "Execute", "ExecuteWithArgs"}
\* CallCachedWithTTL takes the ttl of its caller
WrapperPaths == ReadPaths \cup {"CallCachedWithTTL"}
CallerTTLs == {1}
ConfiguredCall == [method |-> "Find", args |-> <<"x">>]
NoConfiguredRead == [pc |-> "idle", path |-> "none", ttl |-> 0, config |-> NoMethodConfig]

\* SetMethodConfig(methodName, config) / RegisterMethod with a config
SetMethodConfig(config) ==
  /\ methodConfigs' = config
  /\ UNCHANGED <<entries, items, itemsHeap, cleanItem, gcEntry, keyRegistry, mcRd, mcLast,
                 methodOthers>>

\* the decision each read path takes before it touches the cache: whether it
\* goes through the cache at all, and the ttl it hands to cache.Set.
\* CallCached and ExecuteWithArgs go to GetCached, CallCachedWithTTL to
\* GetCachedWithTTL with its caller's ttl, Execute loads methodConfigs.
pathPlan(path, config, ttl) ==
  IF path = "Execute" /\ config.set
    THEN [cached |-> config.Cacheable,
          ttl |-> IF config.TTL > 0 THEN config.TTL ELSE DefaultTTL]
  ELSE IF path = "CallCachedWithTTL"
    THEN [cached |-> TRUE, ttl |-> ttl]
    ELSE [cached |-> TRUE, ttl |-> DefaultTTL]

\* what a finished configured read leaves in the history
ReadDone(read, hit, stored) ==
  [path |-> mcRd.path, config |-> mcRd.config, read |-> read, hit |-> hit,
   stored |-> stored, ttl |-> IF stored THEN mcRd.ttl ELSE 0]

\* a read of the method enters its path: Execute loads methodConfigs and, for
\* a method that is not cacheable, goes on to the direct call
ConfiguredRead(path, ttl) ==
  /\ mcRd.pc = "idle"
  /\ LET plan == pathPlan(path, methodConfigs, ttl)
     IN mcRd' = [pc |-> IF plan.cached THEN "key" ELSE "call", path |-> path,
                 ttl |-> plan.ttl, config |-> methodConfigs]
  /\ UNCHANGED <<entries, items, itemsHeap, cleanItem, gcEntry, keyRegistry, methodConfigs,
                 mcLast, methodOthers>>

\* BuildCacheKey: the key is registered in keyRegistry (the one caller of this
\* specification is alone on the registry)
ConfiguredKey ==
  /\ mcRd.pc = "key"
  /\ keyRegistry' = Register(keyRegistry, ConfiguredCall)
  /\ mcRd' = [mcRd EXCEPT !.pc = "keyed"]
  /\ UNCHANGED <<entries, items, itemsHeap, cleanItem, gcEntry, methodConfigs, mcLast,
                 methodOthers>>

\* GetCached / GetCachedWithTTL: the cache.Get
ConfiguredGet ==
  /\ mcRd.pc = "keyed"
  /\ IF GetResult(Cache, CacheKeyOf(ConfiguredCall), clock).found
       THEN /\ mcLast' = ReadDone(TRUE, TRUE, FALSE)
            /\ mcRd' = [mcRd EXCEPT !.pc = "idle"]
       ELSE /\ mcRd' = [mcRd EXCEPT !.pc = "missed"]
            /\ UNCHANGED mcLast
  /\ UNCHANGED <<entries, items, itemsHeap, cleanItem, gcEntry, keyRegistry, methodConfigs,
                 methodOthers>>

\* the call of the method: fetchFunc() after a miss, or Execute's direct call
ConfiguredFetch(ok) ==
  /\ mcRd.pc \in {"missed", "call"}
  /\ IF mcRd.pc = "call"
       THEN /\ mcLast' = ReadDone(FALSE, FALSE, FALSE)
            /\ mcRd' = [mcRd EXCEPT !.pc = "idle"]
     ELSE IF ok
       THEN /\ mcRd' = [mcRd EXCEPT !.pc = "fetched"]
            /\ UNCHANGED mcLast
       ELSE /\ mcLast' = ReadDone(TRUE, FALSE, FALSE)
            /\ mcRd' = [mcRd EXCEPT !.pc = "idle"]
  /\ UNCHANGED <<entries, items, itemsHeap, cleanItem, gcEntry, keyRegistry, methodConfigs,
                 methodOthers>>

\* GetCached / GetCachedWithTTL: the cache.Set of the fetched result
ConfiguredStore ==
  /\ mcRd.pc = "fetched"
  /\ FreeIds(Cache) # {}
  /\ Commit(add(Cache, CacheKeyOf(ConfiguredCall), 1, mcRd.ttl, clock), cleanItem, gcEntry)
  /\ mcLast' = ReadDone(TRUE, FALSE, TRUE)
  /\ mcRd' = [mcRd EXCEPT !.pc = "idle"]
  /\ UNCHANGED <<keyRegistry, methodConfigs, methodOthers>>

MethodInit ==
  /\ methodConfigs = NoMethodConfig
  /\ mcRd = NoConfiguredRead
  /\ mcLast = [path |-> "none", config |-> NoMethodConfig, read |-> FALSE, hit |-> FALSE,
               stored |-> FALSE, ttl |-> 0]

\* ================================================= memoised reads
MaxFetches == 3
MemoCall == [method |-> "Find", args |-> <<"x">>]
NoMemo == [valid |-> FALSE, value |-> 0, until |-> 0, invalidated |-> FALSE]
NoMemoRead == [op |-> "none", fetched |-> FALSE, ret |-> 0, at |-> 0, due |-> NoMemo]
NoMemoRd == [pc |-> "idle", at |-> 0, val |-> 0]

\* CallCached(cb, ctx, method, args, fetch) by one caller, up to BuildCacheKey
MemoRead ==
  /\ memoRd.pc = "idle"
  /\ keyRegistry' = Register(keyRegistry, MemoCall)
  /\ memoRd' = [NoMemoRd EXCEPT !.pc = "keyed"]
  /\ UNCHANGED <<entries, items, itemsHeap, cleanItem, gcEntry, fetches, memo, memoLast,
                 memoOthers>>

\* GetCached: the cache.Get
MemoGet ==
  /\ memoRd.pc = "keyed"
  /\ LET got == GetResult(Cache, CacheKeyOf(MemoCall), clock)
     IN IF got.found
          THEN /\ memoLast' = [op |-> "read", fetched |-> FALSE, ret |-> got.value,
                               at |-> clock, due |-> memo]
               /\ memoRd' = NoMemoRd
          ELSE /\ memoRd' = [memoRd EXCEPT !.pc = "missed", !.at = clock]
               /\ UNCHANGED memoLast
  /\ UNCHANGED <<entries, items, itemsHeap, cleanItem, gcEntry, keyRegistry, fetches, memo,
                 memoOthers>>

\* GetCached: fetchFunc(); fetch returns a new value at every call
MemoFetch(ok) ==
  /\ memoRd.pc = "missed"
  /\ fetches < MaxFetches
  /\ fetches' = fetches + 1
  /\ IF ok
       THEN /\ memoRd' = [memoRd EXCEPT !.pc = "fetched", !.val = fetches + 1]
            /\ UNCHANGED <<memo, memoLast>>
       ELSE /\ memo' = [memo EXCEPT !.invalidated = FALSE]
            /\ memoLast' = [op |-> "error", fetched |-> TRUE, ret |-> 0,
                            at |-> memoRd.at, due |-> memo]
            /\ memoRd' = NoMemoRd
  /\ UNCHANGED <<entries, items, itemsHeap, cleanItem, gcEntry, keyRegistry, memoOthers>>

\* GetCached: the cache.Set of the fetched result with the default TTL
MemoStore ==
  /\ memoRd.pc = "fetched"
  /\ FreeIds(Cache) # {}
  /\ Commit(add(Cache, CacheKeyOf(MemoCall), memoRd.val, DefaultTTL, clock),
            cleanItem, gcEntry)
  /\ memo' = [valid |-> TRUE, value |-> memoRd.val, until |-> clock + DefaultTTL,
              invalidated |-> FALSE]
  /\ memoLast' = [op |-> "read", fetched |-> TRUE, ret |-> memoRd.val,
                  at |-> memoRd.at, due |-> memo]
  /\ memoRd' = NoMemoRd
  /\ UNCHANGED <<keyRegistry, fetches, memoOthers>>

\* InvalidateMethod(ctx, method, args...) by the same caller, between its reads
MemoInvalidate ==
  /\ memoRd.pc = "idle"
  /\ keyRegistry' = Register(keyRegistry, MemoCall)
  /\ Commit(delete(Cache, CacheKeyOf(MemoCall), clock), cleanItem, gcEntry)
  /\ memo' = [NoMemo EXCEPT !.invalidated = TRUE]
  /\ memoLast' = [NoMemoRead EXCEPT !.op = "invalidate"]
  /\ UNCHANGED <<fetches, memoRd, memoOthers>>

MemoInit ==
  /\ fetches = 0
  /\ memo = NoMemo
  /\ memoRd = NoMemoRd
  /\ memoLast = NoMemoRead

\* ==================================================== combine functions
\* field values of other Go types: the string "1" and the number 1, which fmt
\* prints alike with %v
StrOne == [type |-> "string", text |-> <<"1">>]
NumOne == [type |-> "float64", text |-> <<"1">>]

\* the events of the parts: the key field, and up to two other fields
JoinKeyValues == {StrA, StrOne, NumOne}
JoinEvents ==
  UNION {[{"id"} \cup F -> JoinKeyValues \cup {StrB}] : F \in SUBSET {"x", "y"}}
JoinParts ==
  {e \in JoinEvents :
     /\ e["id"] \in JoinKeyValues
     /\ "x" \in DOMAIN e => e["x"] \in {StrA, StrB}
     /\ "y" \in DOMAIN e => e["y"] = StrA}

\* time.Now().Format(time.RFC3339)
Rfc3339(now) == [type |-> "string", text |-> <<"t", <<"0", "1", "2", "3">>[now + 1]>>]

IsKeyField(k, keyDefs) == \E i \in 1..Len(keyDefs) : keyDefs[i] = k

\* JoinCombine: the key fields e1 has, then the other fields of e1, then those
\* of e2 over them, then joinedAt
JoinCombine(e1, e2, keyDefs, now) ==
  LET keys == {k \in DOMAIN e1 : IsKeyField(k, keyDefs)}
      rest1 == {k \in DOMAIN e1 : ~IsKeyField(k, keyDefs)}
      rest2 == {k \in DOMAIN e2 : ~IsKeyField(k, keyDefs)}
  IN [k \in keys \cup rest1 \cup rest2 \cup {"joinedAt"} |->
        IF k = "joinedAt" THEN Rfc3339(now)
        ELSE IF k \in rest2 THEN e2[k]
        ELSE e1[k]]

NoJoin == [op |-> "none", a |-> [id |-> StrA], b |-> [id |-> StrA],
           ab |-> [id |-> StrA], ba |-> [id |-> StrA]]

\* two parts AddData has put in one block (GetKeyValue gave both the same key),
\* combined as stored x inbound and as inbound x stored
JoinPair(a, b) ==
  /\ GetKeyValue(a).ok /\ GetKeyValue(b).ok
  /\ GetKeyValue(a).key = GetKeyValue(b).key
  /\ joinLast' = [op |-> "join", a |-> a, b |-> b,
                  ab |-> JoinCombine(a, b, KeyDefinitions, clock),
                  ba |-> JoinCombine(b, a, KeyDefinitions, clock)]
  /\ UNCHANGED joinOthers

JoinInit == joinLast = NoJoin

\* ======================================================== routing table
\* A selector is its characters, so that the two-character suffix and the
\* prefix of FindRouteBySelectorWildcard are slices as in the code.
RegistrySelectors == {<<"a">>, <<"a", "/", "*">>, <<"a", "/", "b", "/", "*">>, <<"/", "*">>}
RegistryQueries ==
  RegistrySelectors \cup {<<"a", "/", "b", "/", "c">>, <<"a", "b">>, <<"b">>}
RegistrySubjects == {"x", "y"}
MaxRoutes == 3

\* NatConfig, by the two fields the maps are built on
NatConfigs == [selector : RegistrySelectors, subject : RegistrySubjects]
NoRoute == [selector |-> <<>>, subject |-> ""]
RouteLists == UNION {[1..n -> NatConfigs] : n \in 0..MaxRoutes}

\* what a lookup returns: the route, or one of the errors
Found(route) == [kind |-> "ok", route |-> route]
NotFound == [kind |-> "notfound", route |-> NoRoute]
Ambiguous == [kind |-> "ambiguous", route |-> NoRoute]
NoLookup == [op |-> "none", query |-> <<>>, ret |-> NotFound]

\* the loop of BuildRouteMaps: a later route overwrites the map entry of an
\* earlier one with the same key
LastIndex(rs, field, key) ==
  CHOOSE i \in 1..Len(rs) :
    /\ rs[i][field] = key
    /\ \A j \in 1..Len(rs) : rs[j][field] = key => j <= i

buildRouteMaps(rs) ==
  [routes |-> rs,
   selectorMap |-> [s \in {rs[i].selector : i \in 1..Len(rs)} |-> LastIndex(rs, "selector", s)],
   subjectMap |-> [s \in {rs[i].subject : i \in 1..Len(rs)} |-> LastIndex(rs, "subject", s)]]

\* The Config as one value.
Config == [routes |-> routes, selectorMap |-> selectorMap, subjectMap |-> subjectMap]

\* key[len(key)-2:] == "/*"
IsWildcard(key) == Len(key) >= 2 /\ SubSeq(key, Len(key) - 1, Len(key)) = <<"/", "*">>
\* key[:len(key)-2]
WildcardPrefix(key) == SubSeq(key, 1, Len(key) - 2)

\* the keys the range over selectorMap appends to matches; the order of the
\* range decides only the order of matches, of which the code uses the length
\* and, when the length is one, the only element
WildcardMatches(c, selector) ==
  {key \in DOMAIN c.selectorMap :
     IsWildcard(key) /\ IsPrefix(WildcardPrefix(key), selector)}

\* a lookup by selector that falls back on the wildcard routes
findRouteBySelectorLoose(c, selector) ==
  IF selector \in DOMAIN c.selectorMap THEN Found(c.routes[c.selectorMap[selector]])
  ELSE IF WildcardMatches(c, selector) # {}
    THEN Found(c.routes[c.selectorMap[CHOOSE key \in WildcardMatches(c, selector) : TRUE]])
  ELSE NotFound

findRouteBySelector(c, selector) ==
  IF selector \in DOMAIN c.selectorMap THEN Found(c.routes[c.selectorMap[selector]])
  ELSE NotFound

findRouteBySubject(c, subject) ==
  IF subject \in DOMAIN c.subjectMap THEN Found(c.routes[c.subjectMap[subject]])
  ELSE NotFound

findRouteBySelectorWildcard(c, selector) ==
  IF selector \in DOMAIN c.selectorMap THEN Found(c.routes[c.selectorMap[selector]])
  ELSE LET matches == WildcardMatches(c, selector)
       IN IF Cardinality(matches) = 1
            THEN Found(c.routes[c.selectorMap[CHOOSE key \in matches : TRUE]])
          ELSE IF Cardinality(matches) > 1 THEN Ambiguous
          ELSE NotFound

\* ---- actions of the routing table
\* LoadConfig: the routes of the file, then BuildRouteMaps. LoadConfig returns a
\* new Config; the model follows one Config from its zero value.
LoadConfig(rs) ==
  /\ routes = <<>>
  /\ \E c \in {buildRouteMaps(rs)} :
       /\ routes' = c.routes
       /\ selectorMap' = c.selectorMap
       /\ subjectMap' = c.subjectMap
  /\ regLast' = NoLookup
  /\ UNCHANGED registryOthers

FindRouteBySelector(selector) ==
  /\ regLast' = [op |-> "selector", query |-> selector,
                 ret |-> findRouteBySelector(Config, selector)]
  /\ UNCHANGED <<routes, selectorMap, subjectMap, registryOthers>>

FindRouteBySubject(subject) ==
  /\ regLast' = [op |-> "subject", query |-> <<subject>>,
                 ret |-> findRouteBySubject(Config, subject)]
  /\ UNCHANGED <<routes, selectorMap, subjectMap, registryOthers>>

FindRouteBySelectorWildcard(selector) ==
  /\ regLast' = [op |-> "wildcard", query |-> selector,
                 ret |-> findRouteBySelectorWildcard(Config, selector)]
  /\ UNCHANGED <<routes, selectorMap, subjectMap, registryOthers>>

\* a Config before LoadConfig: no routes, nil maps
RegistryInit ==
  /\ routes = <<>>
  /\ selectorMap = buildRouteMaps(<<>>).selectorMap
  /\ subjectMap = buildRouteMaps(<<>>).subjectMap
  /\ regLast = NoLookup

\* ================================================= cached state backend
StateID == "s1"
ColumnIds == {"c1"}
DefinitionType == "t"
MaxStateValue == 1
\* bound on the entries the cache of the state backend holds at once
MaxCached == 2
\* bound on the writes that change the tables of the base backend
MaxWrites == 2
\* bound on the read methods that have entries in the cache at once
MaxMethods == 1
\* the goroutines reading through the wrapper while another one writes
StateReaders == {"r1"}

\* StateLoadBasic and StateLoadFullNoData
StateLoadFlags == {"basic", "fullNoData"}

\* the read methods of the wrapper, with their cache arguments
StateReads ==
  {[method |-> "FindState", args |-> <<StateID>>],
   [method |-> "FindDataColumnDefinitionsByStateID", args |-> <<StateID>>],
   [method |-> "FindConfigAttributes", args |-> <<StateID>>],
   [method |-> "FindStateConfigKeyDefinitionsGroupByDefinitionType", args |-> <<StateID>>],
   [method |-> "FindStateConfigKeyDefinitions", args |-> <<StateID>>],
   [method |-> "FindStateConfigKeyDefinitionsByType", args |-> <<StateID, DefinitionType>>]}
  \cup {[method |-> "FindStateFull", args |-> <<StateID, f>>] : f \in StateLoadFlags}
  \cup {[method |-> "FindDataRowColumnDataByColumnID", args |-> <<c>>] : c \in ColumnIds}

NoResult == [count |-> 0, columns |-> {}, attributes |-> 0, keyDefinitions |-> 0, data |-> 0]

\* what the base backend returns for a read on the tables d
baseRead(d, call) ==
  CASE call.method = "FindState" -> [NoResult EXCEPT !.count = d.count]
    [] call.method = "FindStateFull" ->
         IF call.args[2] = "basic" THEN [NoResult EXCEPT !.count = d.count]
         ELSE [count |-> d.count, columns |-> d.columns, attributes |-> d.attributes,
               keyDefinitions |-> d.keyDefinitions, data |-> 0]
    [] call.method = "FindDataColumnDefinitionsByStateID" ->
         [NoResult EXCEPT !.columns = d.columns]
    [] call.method = "FindDataRowColumnDataByColumnID" -> [NoResult EXCEPT !.data = 1]
    [] call.method = "FindConfigAttributes" -> [NoResult EXCEPT !.attributes = d.attributes]
    [] OTHER -> [NoResult EXCEPT !.keyDefinitions = d.keyDefinitions]

\* the methods the wrapper hands to InvalidateMethodPrefix; the keyRegistry
\* entries of the other methods are written and never read
PrefixInvalidated == {"FindStateFull"}

\* the reads whose result a change of the tables from d to e changes
changedReads(d, e) == {call \in StateReads : baseRead(d, call) # baseRead(e, call)}

\* the queries the base backend makes for a read, each by the part of the
\* result it fills: FindStateFull reads the state row, then the key
\* definitions, the attributes and the columns its flags ask for, in no
\* transaction
Queries(call) ==
  CASE call.method = "FindState" -> <<"count">>
    [] call.method = "FindStateFull" ->
         IF call.args[2] = "basic" THEN <<"count">>
         ELSE <<"count", "keyDefinitions", "attributes", "columns">>
    [] call.method = "FindDataColumnDefinitionsByStateID" -> <<"columns">>
    [] call.method = "FindDataRowColumnDataByColumnID" -> <<"data">>
    [] call.method = "FindConfigAttributes" -> <<"attributes">>
    [] OTHER -> <<"keyDefinitions">>

NoStateRead ==
  [pc |-> "idle", call |-> NoCall, val |-> NoResult, done |-> 0, seq |-> 0, floor |-> 0]
NoStateWrite ==
  [pc |-> "idle", todo |-> <<>>, must |-> {}, seen |-> {}, affected |-> 0,
   seq |-> 0, changed |-> {}]

\* the invalidations a write method makes after its base call
Method(method, args) == [kind |-> "method", call |-> [method |-> method, args |-> args]]
Prefix(method, prefixArg) ==
  [kind |-> "prefix", call |-> [method |-> method, args |-> <<prefixArg>>]]

\* ---- a read method: CallCached(cb, ctx, method, args, fetch), one goroutine
\* BuildCacheKey up to keyRegistry.LoadOrStore: the caller holds the key set
\* the registry has for its method and first argument
StateRead(t, call) ==
  /\ stRd[t].pc = "idle"
  /\ Cardinality({key[1] : key \in DOMAIN stCache} \cup {call.method}) <= MaxMethods
  /\ stRegistry' = IF call.method \in PrefixInvalidated
                     THEN loadOrStore(stRegistry, call) ELSE stRegistry
  /\ stRd' = [stRd EXCEPT ![t] =
                [pc |-> IF call.method \in PrefixInvalidated THEN "loaded" ELSE "keyed",
                 call |-> call, val |-> NoResult, done |-> 0, seq |-> 0,
                 floor |-> stHist.touched[call]]]
  /\ UNCHANGED <<stDb, stCache, stWr, stHist, stateOthers>>

\* BuildCacheKey: keySet.Store(cacheKey, true) on the key set the caller holds,
\* which is no longer the registry's when InvalidateMethodPrefix has removed it
StateReadRegister(t) ==
  /\ stRd[t].pc \in {"loaded", "orphaned"}
  /\ stRegistry' = IF stRd[t].pc = "loaded" THEN Register(stRegistry, stRd[t].call)
                                            ELSE stRegistry
  /\ stRd' = [stRd EXCEPT ![t].pc = "keyed"]
  /\ UNCHANGED <<stDb, stCache, stWr, stHist, stateOthers>>

\* GetCached: cache.Get; a hit returns the cached value
StateReadGet(t) ==
  /\ stRd[t].pc = "keyed"
  /\ LET key == CacheKeyOf(stRd[t].call)
     IN IF key \in DOMAIN stCache
          THEN stRd' = [stRd EXCEPT ![t] = NoStateRead]
          ELSE stRd' = [stRd EXCEPT ![t].pc = "missed"]
  /\ UNCHANGED <<stDb, stCache, stRegistry, stWr, stHist, stateOthers>>

\* GetCached: fetchFunc(), the read of the base backend, with no lock held, one
\* query: it fills its part of the result from the tables as they are now (the
\* result is numbered by its first query); an error of a query is returned and
\* nothing is cached
StateReadFetch(t, ok) ==
  /\ stRd[t].pc = "missed"
  /\ IF ok
       THEN LET queries == Queries(stRd[t].call)
                n == stRd[t].done + 1
                part == queries[n]
            IN stRd' = [stRd EXCEPT
                          ![t].pc = IF n = Len(queries) THEN "fetched" ELSE "missed",
                          ![t].val = [@ EXCEPT ![part] = baseRead(stDb, stRd[t].call)[part]],
                          ![t].done = n,
                          ![t].seq = IF n = 1 THEN stHist.seq ELSE @]
       ELSE stRd' = [stRd EXCEPT ![t] = NoStateRead]
  /\ UNCHANGED <<stDb, stCache, stRegistry, stWr, stHist, stateOthers>>

\* GetCached: cache.Set(cacheKey, result, defaultTTL) and the return
StateReadStore(t) ==
  /\ stRd[t].pc = "fetched"
  /\ LET key == CacheKeyOf(stRd[t].call)
     IN /\ Cardinality(DOMAIN stCache \cup {key}) <= MaxCached
        /\ stCache' = [k \in DOMAIN stCache \cup {key} |->
                         IF k = key THEN [value |-> stRd[t].val, seq |-> stRd[t].seq]
                                    ELSE stCache[k]]
  /\ stRd' = [stRd EXCEPT ![t] = NoStateRead]
  /\ UNCHANGED <<stDb, stRegistry, stWr, stHist, stateOthers>>

\* the entry of a key reaches its TTL
StateExpire(key) ==
  /\ key \in DOMAIN stCache
  /\ stCache' = Forget(stCache, {key})
  /\ UNCHANGED <<stDb, stRegistry, stRd, stWr, stHist, stateOthers>>

\* ---- a write method, one goroutine: the base call, then its invalidations one
\* after the other, none under a lock that spans two of them
\* the base call of a write method leaves the tables at d (they stay as they are
\* when it fails); the method then returns at once or goes through todo
stateWrite(d, err, affected, todo) ==
  /\ stWr.pc = "idle"
  /\ d # stDb => stHist.seq < MaxWrites
  /\ stDb' = d
  /\ IF err
       THEN UNCHANGED <<stWr, stHist>>
       ELSE \E seq \in {IF d = stDb THEN stHist.seq ELSE stHist.seq + 1} :
              IF todo = <<>>
                THEN /\ stHist' = [seq |-> seq,
                                   touched |-> [call \in StateReads |->
                                                  IF call \in changedReads(stDb, d)
                                                    THEN seq ELSE stHist.touched[call]]]
                     /\ UNCHANGED stWr
                ELSE /\ stWr' = [NoStateWrite EXCEPT !.pc = todo[1].kind, !.todo = todo,
                                   !.affected = affected, !.seq = seq,
                                   !.changed = changedReads(stDb, d)]
                     /\ stHist' = [stHist EXCEPT !.seq = seq]
  /\ UNCHANGED <<stCache, stRegistry, stRd>>

\* the writer is through with the invalidation at the head of todo
stateNext ==
  IF Len(stWr.todo) = 1
    THEN /\ stWr' = NoStateWrite
         /\ stHist' = [stHist EXCEPT
                         !.touched = [call \in StateReads |->
                                        IF call \in stWr.changed THEN stWr.seq
                                        ELSE stHist.touched[call]]]
    ELSE /\ stWr' = [stWr EXCEPT !.pc = stWr.todo[2].kind, !.todo = Tail(@),
                                 !.must = {}, !.seen = {}]
         /\ UNCHANGED stHist

\* InvalidateMethod(ctx, method, args...): BuildCacheKey, which for the methods
\* the wrapper invalidates this way touches only registry entries nothing
\* reads, then cache.Delete(ctx, cacheKey)
StateInvalidateMethod ==
  /\ stWr.pc = "method"
  /\ stCache' = Forget(stCache, {CacheKeyOf(stWr.todo[1].call)})
  /\ stateNext
  /\ UNCHANGED <<stDb, stRegistry, stRd, stateOthers>>

\* InvalidateMethodPrefix(ctx, method, prefixArg) up to the start of
\* keySet.Range: keyRegistry.Load; with no entry there is nothing to delete
StateInvalidateMethodPrefix ==
  /\ stWr.pc = "prefix"
  /\ LET registryKey == RegistryKeyOf(stWr.todo[1].call)
     IN IF registryKey \in DOMAIN stRegistry
          THEN /\ stWr' = [stWr EXCEPT !.pc = "ranging", !.must = stRegistry[registryKey]]
               /\ UNCHANGED stHist
          ELSE stateNext
  /\ UNCHANGED <<stDb, stCache, stRegistry, stRd, stateOthers>>

\* keySet.Range, one key: cache.Delete(ctx, cacheKey). The Range visits every
\* key the set held when it began, and may or may not visit a key stored since.
StatePrefixDelete(key) ==
  /\ stWr.pc = "ranging"
  /\ key \in stRegistry[RegistryKeyOf(stWr.todo[1].call)] \ stWr.seen
  /\ stCache' = Forget(stCache, {key})
  /\ stWr' = [stWr EXCEPT !.seen = @ \cup {key}]
  /\ UNCHANGED <<stDb, stRegistry, stRd, stHist, stateOthers>>

\* the Range is over: keyRegistry.Delete(registryKey); a reader that holds the
\* key set from its LoadOrStore now holds a set the registry no longer has
StatePrefixForget ==
  /\ stWr.pc = "ranging"
  /\ stWr.must \subseteq stWr.seen
  /\ LET registryKey == RegistryKeyOf(stWr.todo[1].call)
     IN /\ stRegistry' = Forget(stRegistry, {registryKey})
        /\ stRd' = [t \in StateReaders |->
                      IF stRd[t].pc = "loaded" /\ RegistryKeyOf(stRd[t].call) = registryKey
                        THEN [stRd[t] EXCEPT !.pc = "orphaned"] ELSE stRd[t]]
  /\ stateNext
  /\ UNCHANGED <<stDb, stCache, stateOthers>>

invalidateState == <<Method("FindState", <<StateID>>), Prefix("FindStateFull", StateID)>>

UpsertState(count, ok) ==
  /\ stateWrite(IF ok THEN [stDb EXCEPT !.count = count] ELSE stDb, ~ok, 0, invalidateState)
  /\ UNCHANGED stateOthers

\* the base method persists the state row only
UpsertStateComplete(count, ok) ==
  /\ stateWrite(IF ok THEN [stDb EXCEPT !.count = count] ELSE stDb, ~ok, 0,
                invalidateState \o
                  <<Method("FindConfigAttributes", <<StateID>>),
                    Method("FindStateConfigKeyDefinitionsGroupByDefinitionType", <<StateID>>)>>)
  /\ UNCHANGED stateOthers

invalidateColumns ==
  <<Method("FindDataColumnDefinitionsByStateID", <<StateID>>),
    Prefix("FindStateFull", StateID)>>

\* the invalidations go over the states of the columns handed in: none for none
UpsertStateColumns(columns, ok) ==
  /\ stateWrite(IF ok THEN [stDb EXCEPT !.columns = @ \cup columns] ELSE stDb, ~ok, 0,
                IF columns = {} THEN <<>> ELSE invalidateColumns)
  /\ UNCHANGED stateOthers

\* the base method reports RowsAffected and no error: a delete that fails leaves
\* the columns and reports 0, and the invalidations run all the same
DeleteStateColumns(ok) ==
  /\ stateWrite(IF ok THEN [stDb EXCEPT !.columns = {}] ELSE stDb, FALSE,
                IF ok THEN Cardinality(stDb.columns) ELSE 0, invalidateColumns)
  /\ UNCHANGED stateOthers

\* the base method reports RowsAffected > 0: false for a column that is not
\* there and for a delete that fails, and then nothing is invalidated
DeleteStateColumn(id, ok) ==
  /\ \E deleted \in {ok /\ id \in stDb.columns} :
       stateWrite(IF deleted THEN [stDb EXCEPT !.columns = @ \ {id}] ELSE stDb, FALSE,
                  IF deleted THEN 1 ELSE 0,
                  IF deleted THEN <<Method("FindDataRowColumnDataByColumnID", <<id>>)>>
                             ELSE <<>>)
  /\ UNCHANGED stateOthers

invalidateAttributes ==
  <<Method("FindConfigAttributes", <<StateID>>), Prefix("FindStateFull", StateID)>>

UpsertConfigAttribute(data, ok) ==
  /\ stateWrite(IF ok THEN [stDb EXCEPT !.attributes = data] ELSE stDb, ~ok, 0,
                invalidateAttributes)
  /\ UNCHANGED stateOthers

\* data = 0 stands for the empty list, which the base method ignores
UpsertConfigAttributes(data, ok) ==
  /\ stateWrite(IF ok /\ data # 0 THEN [stDb EXCEPT !.attributes = data] ELSE stDb, ~ok, 0,
                IF data = 0 THEN <<>> ELSE invalidateAttributes)
  /\ UNCHANGED stateOthers

DeleteConfigAttributes(ok) ==
  /\ stateWrite(IF ok THEN [stDb EXCEPT !.attributes = 0] ELSE stDb, ~ok, 0,
                invalidateAttributes)
  /\ UNCHANGED stateOthers

UpsertStateConfigKeyDefinitions(data, ok) ==
  /\ stateWrite(IF ok THEN [stDb EXCEPT !.keyDefinitions = data] ELSE stDb, ~ok, 0,
                <<Method("FindStateConfigKeyDefinitions", <<StateID>>),
                  Method("FindStateConfigKeyDefinitionsGroupByDefinitionType", <<StateID>>),
                  Prefix("FindStateFull", StateID),
                  Method("FindStateConfigKeyDefinitionsByType", <<StateID, DefinitionType>>)>>)
  /\ UNCHANGED stateOthers

\* RunTransactionIsolation(fn), or a write on the backend Access() returns: the
\* tables change through the base backend and the wrapper invalidates nothing.
\* The write is an upsert of the state row, as in the function the base
\* UpsertStateComplete hands to RunTransactionIsolation.
RunTransactionIsolation(count) ==
  /\ count # stDb.count
  /\ stHist.seq < MaxWrites
  /\ stDb' = [stDb EXCEPT !.count = count]
  /\ stHist' = [stHist EXCEPT !.seq = @ + 1]
  /\ UNCHANGED <<stCache, stRegistry, stRd, stWr, stateOthers>>

StateInit ==
  /\ stDb = [count |-> 0, columns |-> {}, attributes |-> 0, keyDefinitions |-> 0]
  /\ stCache = <<>>
  /\ stRegistry = <<>>
  /\ stRd = [t \in StateReaders |-> NoStateRead]
  /\ stWr = NoStateWrite
  /\ stHist = [seq |-> 0, touched |-> [call \in StateReads |-> 0]]

BackendInit ==
  /\ db = 1
  /\ keyRegistry = <<>>
  /\ rdPc = [t \in Readers |-> "idle"]
  /\ rdCall = [t \in Readers |-> NoCall]
  /\ rdVal = [t \in Readers |-> Nil]
  /\ rdRet = [t \in Readers |-> NoRet]
  /\ rdFloor = [t \in Readers |-> 0]
  /\ wrPc = "idle"
  /\ wrCall = NoCall
  /\ invFloor = <<>>
  /\ wrRange = NoRange

CacheInit ==
  /\ clock = 0
  /\ entries = [e \in EntryIds |-> FreeEntry]
  /\ items = <<>>
  /\ itemsHeap = <<>>
  /\ closed = "open"
  /\ cleanPc = "idle"
  /\ cleanNow = 0
  /\ cleanItem = Nil
  /\ lastSet = <<>>

GcInit ==
  /\ gcPc = [t \in GcThreads |-> "idle"]
  /\ gcKey = [t \in GcThreads |-> <<>>]
  /\ gcTtl = [t \in GcThreads |-> 0]
  /\ gcEntry = [t \in GcThreads |-> Nil]
  /\ gcRet = [t \in GcThreads |-> NoRet]
  /\ fetchOnLive = FALSE

OthersInit ==
  /\ CacheInit /\ GcInit /\ BackendInit /\ RouteInit /\ StateInit
  /\ MethodInit /\ MemoInit /\ RegistryInit /\ JoinInit /\ MuInit
  /\ UseInit /\ OpsInit

Init == OthersInit /\ BlockInit

\* with a store whose parts join up to MaxOrderJoins times
BlockOrderInit == OthersInit /\ NewBlockStore(MaxOrderJoins)

\* The LocalCache driven through its direct operations and its cleanup loop.
CacheNext ==
  \/ \E k \in CacheKeys, v \in CacheValues, t \in CacheTTLs : Set(k, v, t)
  \/ \E k \in CacheKeys : Get(k)
  \/ \E k \in CacheKeys : Delete(k)
  \/ \E p \in CachePrefixes : DeleteByPrefix(p)
  \/ Clear
  \/ CleanupTick
  \/ CleanupPeek
  \/ CleanupCheck
  \/ CleanupEvict
  \/ Tick

SpecCache == Init /\ [][CacheNext]_vars

\* The LocalCache with its Close: the same operations, the values stored not
\* told apart, the cleanup goroutine up to its return, and Close called at any
\* time and any number of times.
CacheCloseNext ==
  \/ \E k \in CacheKeys, t \in CacheTTLs : Set(k, 1, t)
  \/ \E k \in CacheKeys : Get(k)
  \/ \E k \in CacheKeys : Delete(k)
  \/ \E p \in CachePrefixes : DeleteByPrefix(p)
  \/ Clear
  \/ CleanupTick
  \/ CleanupPeek
  \/ CleanupCheck
  \/ CleanupEvict
  \/ CleanupExit
  \/ Close
  \/ Tick

SpecCacheClose == Init /\ [][CacheCloseNext]_vars

\* The LocalCache under concurrent GetCreateOrUpdate callers and its cleanup loop.
GetOrCreateNext ==
  \/ \E t \in GcThreads, k \in GcKeys, ttl \in CacheTTLs : GcRead(t, k, ttl)
  \/ \E t \in GcThreads : GcCheck(t)
  \/ \E t \in GcThreads : GcReturn(t)
  \/ \E t \in GcThreads, res \in FetchResults : GcLocked(t, res)
  \/ CleanupTick
  \/ CleanupPeek
  \/ CleanupCheck
  \/ CleanupEvict
  \/ Tick

SpecGetOrCreate == Init /\ [][GetOrCreateNext]_vars

\* The CachedBackend wrapper over the LocalCache: concurrent reads and a writer
\* that writes and then invalidates, with entries expiring as the clock moves
\* (the cache's cleanup loop runs under the wrapper in SpecMethod and SpecMemo).
BackendNext ==
  \/ \E t \in Readers, call \in BackendCalls : RdStart(t, call)
  \/ \E t \in Readers : RdRegister(t)
  \/ \E t \in Readers : RdGet(t)
  \/ \E t \in Readers, ok \in BOOLEAN : RdFetch(t, ok)
  \/ \E t \in Readers : RdStore(t)
  \/ \E call \in BackendCalls : BackendWrite(call)
  \/ InvalidateKey
  \/ InvalidateMethod
  \/ Tick

SpecBackend == Init /\ [][BackendNext]_vars

\* The BlockStore under AddData callers and its eviction loop.
BlockNext ==
  \/ \E src \in Sources, ev \in Events, fail \in Fails :
       \E order \in RangeOrders(Sources \ {src}) :
         Room(ev, MaxParts) /\ AddData(src, ev, fail, order)
  \/ EvictTick
  \/ EvictPass
  \/ Tick

SpecBlock == Init /\ [][BlockNext]_vars

\* A BlockStore made with blockPartMaxJoinCount = MaxOrderJoins, fed with the
\* events of one key, whose callbacks can fail.
BlockOrderNext ==
  \/ \E src \in Sources, fail \in OrderFails :
       \E order \in RangeOrders(Sources \ {src}) :
         /\ Room([id |-> StrA], MaxOrderParts)
         /\ AddData(src, [id |-> StrA], fail, order)
  \/ EvictTick
  \/ EvictPass
  \/ Tick

SpecBlockOrder == BlockOrderInit /\ [][BlockOrderNext]_vars

\* The BlockStore fed with events whose combines and callbacks succeed, and its
\* ticker firing for ever: every tick is followed by its pass (the mutex is
\* released by every AddData).
BlockFairNext ==
  \/ \E src \in Sources, ev \in Events :
       \E order \in RangeOrders(Sources \ {src}) :
         Room(ev, MaxParts) /\ AddData(src, ev, [kind |-> "none", at |-> 0], order)
  \/ EvictTick
  \/ EvictPass
  \/ Tick

SpecBlockFair ==
  /\ Init
  /\ [][BlockFairNext]_vars
  /\ WF_vars(EvictTick)
  /\ WF_vars(EvictPass)

\* The exported operations statement by statement, with combine functions and
\* callbacks that do not fail.
BlockOpsNext ==
  \/ \E ev \in Events : AddDataLock("s1", ev)
  \/ AddDataStore
  \/ AddDataPush
  \/ AddDataJoin
  \/ AddDataFix
  \/ \E k \in BlockKeys : CallGetOrAddBlock(k)
  \/ GetOrAddBlockStore
  \/ GetOrAddBlockPush
  \/ EvictExpiredBlocks
  \/ EvictExpiredLen
  \/ EvictExpiredHead
  \/ EvictExpiredPop
  \/ EvictTick
  \/ EvictLock
  \/ EvictLen
  \/ EvictLimit
  \/ EvictHead
  \/ EvictPop
  \/ EvictDelete
  \/ EvictExit
  \/ Shutdown
  \/ \E d \in 0..MaxClock : IsIdle(d)
  \/ RaceAbort
  \/ Tick

SpecBlockOps == Init /\ [][BlockOpsNext]_vars

\* Concurrent AddData callers and the eviction loop, with the mutex.
BlockMutexNext ==
  \/ \E t \in MuCallers, src \in Sources, ev \in Events, fail \in MuFails :
       \E order \in RangeOrders(Sources \ {src}) : AddLock(t, src, ev, fail, order)
  \/ \E t \in MuCallers : AddCallback(t)
  \/ \E t \in MuCallers : AddCallbackReturn(t)
  \/ \E t \in MuCallers : AddUnlock(t)
  \/ EvictTick
  \/ EvictLocked
  \/ Tick

SpecBlockMutex == Init /\ [][BlockMutexNext]_vars

\* The first use of one Route by concurrent callers.
FirstUseNext ==
  \/ \E c \in RouteConfigs : ~cfg.made /\ NewRoute(c)
  \/ \E t \in UseCallers, op \in UseOps, f \in ConnectFails : UseStart(t, op, f)
  \/ \E t \in UseCallers, f \in BOOLEAN : UseProceed(t, f)

SpecFirstUse == Init /\ [][FirstUseNext]_vars

\* the answers of the broker a Connect can meet on the route as it is: none when
\* the route is connected, no JetStream answer on a route without JetStream, no
\* answer to AddStream when the stream exists
ConnectAnswers ==
  IF IsConnected(nc) THEN {"none"}
  ELSE IF ~JetStreamEnabled(cfg) THEN {"none", "connect"}
  ELSE IF stream THEN ConnectFails \ {"addstream"}
  ELSE ConnectFails

\* a payload that does not encode never gets to Connect
PublishAnswers(msg) == IF toBytes(msg).ok THEN ConnectAnswers ELSE {"none"}

\* One Route from its construction on: its caller, whose Publish, Request,
\* Subscribe and Drain go step by step, the calls of other goroutines in between,
\* and the broker.
RouteNext ==
  \/ \E c \in RouteConfigs : NewRoute(c)
  \/ \E f \in ConnectAnswers : Connect(f)
  \/ \E m \in Messages : \E f \in PublishAnswers(m) : Publish(m, f)
  \/ \E m \in Messages : \E f \in PublishAnswers(m) : PublishWithSuffix(m, f)
  \/ \E m \in Messages : \E f \in PublishAnswers(m) : Request(m, f)
  \/ \E f \in BOOLEAN : Send(f)
  \/ \E f \in ConnectAnswers : Subscribe(f)
  \/ \E f \in BOOLEAN : SubscribeWith(f)
  \/ \E f \in BOOLEAN : Unsubscribe(f)
  \/ \E f \in BOOLEAN : Disconnect(f)
  \/ Drain
  \/ DrainConnected
  \/ DrainCall
  \/ DrainDone
  \/ \E f \in BOOLEAN : Flush(f)
  \/ ConnectionLost

SpecRoute == Init /\ [][RouteNext]_vars

\* A reader of a CachedBackend and a writer that invalidates by prefix, within
\* the TTL of the entries.
PrefixNext ==
  \/ \E t \in PrefixReaders, call \in PrefixCalls : RdStart(t, call)
  \/ \E t \in PrefixReaders : RdRegister(t)
  \/ \E t \in PrefixReaders : RdGet(t)
  \/ \E t \in PrefixReaders, ok \in BOOLEAN : RdFetch(t, ok)
  \/ \E t \in PrefixReaders : RdStore(t)
  \/ \E method \in PrefixMethods, prefixArgs \in PrefixArgLists :
       InvalidateMethodPrefix(method, prefixArgs)
  \/ \E call \in PrefixCalls : PrefixDelete(CacheKeyOf(call))
  \/ PrefixForget
  \/ \E pattern \in {CacheKeyOf(call) : call \in PrefixCalls} \cup {<<"*">>} :
       InvalidateCache(pattern)

SpecPrefix == Init /\ [][PrefixNext]_vars

\* A method of a CachedBackend read through each of the three paths, under each
\* MethodConfig, over the LocalCache and its cleanup.
MethodNext ==
  \/ \E config \in MethodConfigs : SetMethodConfig(config)
  \/ \E path \in ReadPaths : ConfiguredRead(path, 0)
  \/ \E ttl \in CallerTTLs : ConfiguredRead("CallCachedWithTTL", ttl)
  \/ ConfiguredKey
  \/ ConfiguredGet
  \/ \E ok \in BOOLEAN : ConfiguredFetch(ok)
  \/ ConfiguredStore
  \/ CleanupTick
  \/ CleanupPeek
  \/ CleanupCheck
  \/ CleanupEvict
  \/ Tick

SpecMethod == Init /\ [][MethodNext]_vars

\* One caller reading a method through CallCached and invalidating it, over the
\* LocalCache and its cleanup.
MemoNext ==
  \/ MemoRead
  \/ MemoGet
  \/ \E ok \in BOOLEAN : MemoFetch(ok)
  \/ MemoStore
  \/ MemoInvalidate
  \/ CleanupTick
  \/ CleanupPeek
  \/ CleanupCheck
  \/ CleanupEvict
  \/ Tick

SpecMemo == Init /\ [][MemoNext]_vars

\* The routing table: loaded from a file, then looked up.
RegistryNext ==
  \/ \E rs \in RouteLists : LoadConfig(rs)
  \/ \E selector \in RegistryQueries : FindRouteBySelector(selector)
  \/ \E subject \in RegistrySubjects \cup {"z"} : FindRouteBySubject(subject)
  \/ \E selector \in RegistryQueries : FindRouteBySelectorWildcard(selector)

SpecRegistry == Init /\ [][RegistryNext]_vars

\* JoinCombine applied to pairs of parts of one block, at any time.
JoinNext ==
  \/ \E a \in JoinParts, b \in JoinParts : JoinPair(a, b)
  \/ Tick

SpecJoin == Init /\ [][JoinNext]_vars

\* The cached state backend with a goroutine in a read method, a goroutine in a
\* write method, and a caller that writes through the base backend.
StateNext ==
  \/ \E t \in StateReaders, call \in StateReads : StateRead(t, call)
  \/ \E t \in StateReaders : StateReadRegister(t)
  \/ \E t \in StateReaders : StateReadGet(t)
  \/ \E t \in StateReaders, ok \in BOOLEAN : StateReadFetch(t, ok)
  \/ \E t \in StateReaders : StateReadStore(t)
  \/ \E call \in StateReads : StateExpire(CacheKeyOf(call))
  \/ \E count \in 0..MaxStateValue, ok \in BOOLEAN : UpsertState(count, ok)
  \/ \E count \in 0..MaxStateValue, ok \in BOOLEAN : UpsertStateComplete(count, ok)
  \/ \E columns \in SUBSET ColumnIds, ok \in BOOLEAN : UpsertStateColumns(columns, ok)
  \/ \E ok \in BOOLEAN : DeleteStateColumns(ok)
  \/ \E id \in ColumnIds, ok \in BOOLEAN : DeleteStateColumn(id, ok)
  \/ \E data \in 1..MaxStateValue, ok \in BOOLEAN : UpsertConfigAttribute(data, ok)
  \/ \E data \in 0..MaxStateValue, ok \in BOOLEAN : UpsertConfigAttributes(data, ok)
  \/ \E ok \in BOOLEAN : DeleteConfigAttributes(ok)
  \/ \E data \in 1..MaxStateValue, ok \in BOOLEAN : UpsertStateConfigKeyDefinitions(data, ok)
  \/ StateInvalidateMethod
  \/ StateInvalidateMethodPrefix
  \/ \E call \in StateReads : StatePrefixDelete(CacheKeyOf(call))
  \/ StatePrefixForget
  \/ \E count \in 0..MaxStateValue : RunTransactionIsolation(count)

SpecState == Init /\ [][StateNext]_vars

\* A Route subscribed in pull mode: its goroutine, the caller's ctx, the subject's
\* channel and its readers. The goroutine is scheduled and Fetch returns within
\* its MaxWait, so its steps are weakly fair; nothing makes a reader receive.
PullConfigs == {c \in RouteConfigs : c.mode = "pull"}
PullFails == {"none", "connect"}

\* no goroutine of subscribePull has been started
NoFetcher == \A t \in Fetchers : fetcher[t] = "none"

\* A pull Route whose caller subscribes until one subscription succeeds, the
\* goroutine of that subscription, the cleanup of Route.Channels and a reader.
PullNext ==
  \/ \E c \in PullConfigs, e \in BOOLEAN, cb \in BOOLEAN : NewRouteWith(c, e, cb)
  \/ \E cb \in BOOLEAN : ~Crashed /\ SetCallback(cb)
  \/ \E f \in PullFails : ~Crashed /\ NoFetcher /\ Subscribe(f)
  \/ \E f \in BOOLEAN : ~Crashed /\ SubscribeWith(f)
  \/ \E f \in BOOLEAN : ~Crashed /\ Unsubscribe(f)
  \/ CancelCtx
  \/ \E t \in Fetchers : FetcherCheck(t)
  \/ \E t \in Fetchers, res \in FetchResults2 : FetcherFetch(t, res)
  \/ \E t \in Fetchers : FetcherDeliver(t)
  \/ \E t \in Fetchers : FetcherCall(t)
  \/ \E t \in Fetchers : ChannelCheck(t)
  \/ \E t \in Fetchers : ChannelReturn(t)
  \/ \E t \in Fetchers : ChannelLocked(t)
  \/ \E t \in Fetchers : FetcherSend(t)
  \/ \E c \in CacheValues : ChannelRead(c)
  \/ ~Crashed /\ CleanupTick
  \/ ~Crashed /\ CleanupPeek
  \/ ~Crashed /\ CleanupCheck
  \/ ~Crashed /\ CleanupEvict
  \/ ~Crashed /\ Tick

\* the steps of one goroutine of subscribePull
FetcherStep(t) ==
  \/ FetcherCheck(t)
  \/ \E res \in FetchResults2 : FetcherFetch(t, res)
  \/ FetcherDeliver(t)
  \/ FetcherCall(t)
  \/ ChannelCheck(t)
  \/ ChannelReturn(t)
  \/ ChannelLocked(t)
  \/ FetcherSend(t)

SpecPull ==
  /\ Init
  /\ [][PullNext]_vars
  /\ \A t \in Fetchers : WF_vars(FetcherStep(t))

\* A pull Route whose caller subscribes again while the goroutine of an earlier
\* subscription runs: two goroutines, each fetching on its own subscription,
\* batches of one message, a broker that answers every call, a callback that
\* stays set.
PullTwiceNext ==
  \/ \E c \in PullConfigs, e \in BOOLEAN : NewRouteWith(c, e, TRUE)
  \/ ~Crashed /\ Subscribe("none")
  \/ ~Crashed /\ SubscribeWith(FALSE)
  \/ ~Crashed /\ Unsubscribe(FALSE)
  \/ CancelCtx
  \/ \E t \in Fetchers : FetcherCheck(t)
  \/ \E t \in Fetchers, res \in {r \in FetchResults2 : r.n <= 1} : FetcherFetch(t, res)
  \/ \E t \in Fetchers : FetcherDeliver(t)
  \/ \E t \in Fetchers : FetcherCall(t)
  \/ \E t \in Fetchers : ChannelCheck(t)
  \/ \E t \in Fetchers : ChannelReturn(t)
  \/ \E t \in Fetchers : ChannelLocked(t)
  \/ \E t \in Fetchers : FetcherSend(t)
  \/ \E c \in CacheValues : ChannelRead(c)
  \/ ~Crashed /\ CleanupTick
  \/ ~Crashed /\ CleanupPeek
  \/ ~Crashed /\ CleanupCheck
  \/ ~Crashed /\ CleanupEvict
  \/ ~Crashed /\ Tick

SpecPullTwice == Init /\ [][PullTwiceNext]_vars

\* C1 (claim): after Set(k, v, ttl), every Get(k) before the ttl elapses and with
\* no later Set/Delete/DeleteByPrefix/Clear of k is a hit returning v.
C1_GetAfterSetHits ==
  \A k \in DOMAIN lastSet :
    clock < lastSet[k].until
      => GetResult(Cache, k, clock) = [value |-> lastSet[k].value, found |-> TRUE]

\* C3 (claim): GetCreateOrUpdate is single-flight: fetchFunc is never invoked for
\* a key that another caller has already filled (a Get of it would hit).
C3_SingleFlight == ~fetchOnLive

\* C2 (claim): a read of (M, a) that starts after InvalidateMethod(M, a) has returned
\* never returns a value older than the write that invalidation followed.
C2_ReadAfterInvalidateIsFresh ==
  \A t \in Readers :
    rdRet[t].kind = "value" => rdRet[t].value >= rdFloor[t]

\* C4 (claim): every BlockPart a list holds, stored or inbound, has been joined at
\* most blockPartMaxJoinCount times.
C4_JoinCountBounded ==
  \A p \in DOMAIN parts : parts[p].JoinCount <= blockPartMaxJoinCount

\* the heap is ordered by evictionTime and every block's heapIndex is its position
BlockHeapOrdered ==
  /\ \A i \in 2..Len(blockHeap) :
       blocks[blockHeap[GoDiv2(i - 2) + 1]].evictionTime <= blocks[blockHeap[i]].evictionTime
  /\ \A i \in 1..Len(blockHeap) : blocks[blockHeap[i]].heapIndex = i - 1

\* C5 (claim): after an AddData call that landed a part - returned success or a
\* combine/callback error - the block's evictionTime is the call's now +
\* blockWindowTTL and the heap is in order.
C5_EvictionTimeRefreshed ==
  addRes.kind \in {"ok", "combine", "callback"}
    => /\ addRes.key \in DOMAIN blocks
       /\ blocks[addRes.key].evictionTime = addRes.now + blockWindowTTL
       /\ BlockHeapOrdered

\* C6 (claim): a pass of the eviction loop removes a block only while there are
\* more blocks than blockCountSoftLimit and the block's evictionTime is before
\* now, and when it ends nothing more was due.
C6_EvictionGuard ==
  /\ \A i \in 1..Len(evictLog.removed) :
       /\ evictLog.removed[i].size > blockCountSoftLimit
       /\ evictLog.removed[i].evictionTime < evictLog.now
       /\ evictLog.now <= clock
  /\ evictLog.now >= 0
       => \/ Len(blockHeap) = 0
          \/ Cardinality(DOMAIN blocks) <= blockCountSoftLimit
          \/ blocks[blockHeap[1]].evictionTime >= evictLog.now

\* C6 (witness): a pass has just removed a block and stopped at the soft limit
\* with another expired block left in the store
C6_Witness ==
  /\ Len(evictLog.removed) > 0
  /\ Len(blockHeap) > 0
  /\ blocks[blockHeap[1]].evictionTime < evictLog.now

\* C7 (claim): AddData with an event that lacks a key field returns an error,
\* invokes neither combineFunc nor callback and leaves blocks, parts lists, heap,
\* eviction times and lastAccessed as they were.
C7_MissingKeyChangesNothing ==
  addRes.kind = "keyerr" => addRes.calls = <<>> /\ addRes.pre = Snapshot

\* C7 (amended): AddData with an event that lacks a key field returns an error,
\* invokes neither combineFunc nor callback and leaves blocks, parts lists, heap
\* and eviction times as they were; lastAccessed is set to the time of the call.
C7_MissingKeyKeepsStore ==
  addRes.kind = "keyerr"
    => /\ addRes.calls = <<>>
       /\ addRes.pre.blocks = blocks
       /\ addRes.pre.heap = blockHeap
       /\ addRes.pre.parts = parts
       /\ lastAccessed = addRes.now

\* C7 (witness): the call was made on a store holding parts, later than the
\* previous access
C7_Witness ==
  /\ addRes.kind = "keyerr"
  /\ Len(parts) > 0
  /\ addRes.pre.lastAccessed < lastAccessed

\* C8 (claim): on a durable config (name and queue set), whenever Connect returns
\* success the JetStream context is initialised and the stream exists.
C8_ConnectOkMeansStream ==
  (JetStreamEnabled(cfg) /\ lastCall.op = "connect" /\ lastCall.result = "ok")
    => js = "ready" /\ stream

\* C9 (claim): the payload a successful Publish / PublishWithSuffix / Request
\* sends is the input itself for raw bytes, the UTF-8 bytes of a string, and for
\* a map or other value its JSON encoding; the encoding of a map decodes to a
\* structurally equal map.
C9_PayloadIsEncoding ==
  (lastCall.op \in {"publish", "publishWithSuffix", "request"} /\ lastCall.result = "ok")
    => IF lastCall.msg.type = "bytes" THEN lastCall.data = lastCall.msg.val
       ELSE IF lastCall.msg.type = "string" THEN lastCall.data = Utf8String(lastCall.msg.val)
       ELSE /\ lastCall.data = JsonMarshal(lastCall.msg).data
            /\ lastCall.msg.type = "map" =>
                 /\ JsonUnmarshal(lastCall.data).ok
                 /\ StructurallyEqual(JsonUnmarshal(lastCall.data).val, lastCall.msg)

\* C10 (claim): with name or queue absent, no call uses the JetStream context,
\* which stays uninitialised; every call runs on the plain connection.
C10_BestEffortNeverUsesJetStream ==
  (cfg.made /\ ~JetStreamEnabled(cfg))
    => /\ ~jsUsed
       /\ js = "nil"
       /\ lastCall.via # "js"
       /\ lastCall.result # "panic"

\* C11 (claim): once the ctx of a pull subscription is cancelled its goroutine
\* eventually exits, with or without channels; and it exits for no other reason
\* (a fetch timeout or error never ends the loop).
C11_FetcherExitsOnCancel ==
  /\ \A t \in Fetchers : (ctxDone /\ fetcher[t] # "none") ~> (fetcher[t] = "exited")
  /\ [][\A t \in Fetchers :
         (fetcher'[t] = "exited" /\ fetcher[t] # "exited") => ctxDone]_vars

\* the value a read returns in this step, as the cache holds it: from the cache
\* on a hit, the one just fetched on a miss
StateReturned(t) ==
  IF stRd[t].pc = "keyed" THEN stCache[CacheKeyOf(stRd[t].call)]
  ELSE [value |-> stRd[t].val, seq |-> stRd[t].seq]

\* C12 (claim): once a write method of the cached state backend has returned, no
\* read through the wrapper that begins afterwards returns a value that was
\* fetched before that write and that the write has changed.
C12_ReadsAreCoherent ==
  [][\A t \in StateReaders :
       (stRd[t].pc \in {"keyed", "fetched"} /\ stRd'[t].pc = "idle")
         => StateReturned(t).seq >= stRd[t].floor]_vars

\* the cache holds an entry for the call
Cached(its, call) == CacheKeyOf(call) \in DOMAIN its

\* C13 (claim): InvalidateMethodPrefix(M, a) returns with none of the entries
\* that were cached for a call of M with first argument a when it began, and no
\* step of it changes an entry of another method or first argument.
C13_PrefixRemovesExactly ==
  [][/\ \A method \in PrefixMethods, a \in PrefixArgs :
          (InvalidateMethodPrefix(method, <<a>>) /\ wrPc' = "idle") =>
            \A call \in PrefixCalls :
              (call.method = method /\ call.args[1] = a) => ~Cached(items', call)
     /\ PrefixForget =>
          \A k \in DOMAIN wrRange.had :
            ~(k \in DOMAIN items' /\ items'[k] = wrRange.had[k])
     /\ \A call \in PrefixCalls :
          PrefixDelete(CacheKeyOf(call)) =>
            \A other \in PrefixCalls :
              (other.method # wrCall.method \/ other.args[1] # wrCall.args[1])
                => (Cached(items', other) <=> Cached(items, other))]_vars

\* C14 (claim): whichever of CallCached, Execute and ExecuteWithArgs reads a
\* method, a MethodConfig with Cacheable false keeps the read away from the cache,
\* and a result that is cached is stored under the configured TTL, or the default
\* TTL when that is 0 or unset; the MethodConfig is the one the read started under.
C14_MethodConfigHonoured ==
  mcLast.path \in ReadPaths =>
    /\ (mcLast.config.set /\ ~mcLast.config.Cacheable) => (~mcLast.read /\ ~mcLast.stored)
    /\ mcLast.stored =>
         mcLast.ttl = IF mcLast.config.set /\ mcLast.config.TTL > 0
                        THEN mcLast.config.TTL ELSE DefaultTTL

\* C15 (claim): a read that follows a fetching read within the TTL (at its
\* cache.Get), with no invalidation in between, does not fetch and returns the
\* same value; a read that follows InvalidateMethod fetches.
C15_ReadsAreMemoised ==
  memoLast.op \in {"read", "error"} =>
    /\ (memoLast.due.valid /\ memoLast.at <= memoLast.due.until) =>
         (~memoLast.fetched /\ memoLast.ret = memoLast.due.value)
    /\ memoLast.due.invalidated => memoLast.fetched

\* C16 (claim): Get never hits an entry whose TTL has elapsed: a hit on k is
\* a hit on the last Set of k, no later than that Set's time plus its TTL, whether
\* or not the cleanup loop has run or has been stopped by Close.
C16_GetNeverHitsExpired ==
  \A k \in CacheKeys :
    GetResult(Cache, k, clock).found =>
      (k \in DOMAIN lastSet /\ clock <= lastSet[k].until)

\* after Close an expired entry is still in items, and Get misses it
C16_Witness ==
  /\ closed = "closed"
  /\ cleanPc = "exited"
  /\ \E k \in DOMAIN items \cap DOMAIN lastSet :
       /\ clock > lastSet[k].until
       /\ clock > entries[items[k]].evictAt
       /\ ~GetResult(Cache, k, clock).found

\* the store holds more blocks than its soft limit
OverSoftLimit == Cardinality(DOMAIN blocks) > blockCountSoftLimit

\* the clock has passed the evictionTime of the heap head
HeadExpired ==
  /\ Len(blockHeap) > 0
  /\ blocks[blockHeap[1]].evictionTime < clock

\* C17 (claim): while the ticker fires, a store over its soft limit whose heap
\* head the clock has passed does not stay so: the eviction loop brings it to
\* the limit (or the head is refreshed, and the assumption has to hold anew).
C17_EvictionReachesSoftLimit ==
  (OverSoftLimit /\ HeadExpired) ~> (~OverSoftLimit \/ ~HeadExpired)

\* a pass has just brought an over-full store down to its soft limit
C17_Witness ==
  /\ Len(evictLog.removed) > 0
  /\ evictLog.removed[1].size > blockCountSoftLimit
  /\ Cardinality(DOMAIN blocks) = blockCountSoftLimit

\* ---- routing table
\* the lists a file holding the same routes in another order is loaded as
Reorderings(rs) ==
  {[i \in 1..Len(rs) |-> rs[p[i]]] : p \in Permutations(1..Len(rs))}

\* C18: FindRouteBySelectorWildcard(s) returns a route registered under s when
\* there is one; otherwise, of the registered selectors ending in "/*" whose
\* prefix s starts with, it returns the route of the only one, the not-found
\* error when there is none and the ambiguity error when there are several; and
\* the same routes loaded in any other order give the same result.
C18_WildcardLookup ==
  regLast.op = "wildcard" =>
    LET s == regLast.query
        loaded == {routes[i] : i \in 1..Len(routes)}
        candidates == {r.selector : r \in {x \in loaded :
                         IsWildcard(x.selector) /\ IsPrefix(WildcardPrefix(x.selector), s)}}
    IN /\ IF \E r \in loaded : r.selector = s
            THEN regLast.ret.kind = "ok" /\ regLast.ret.route \in loaded
                 /\ regLast.ret.route.selector = s
          ELSE IF Cardinality(candidates) = 1
            THEN regLast.ret.kind = "ok" /\ regLast.ret.route \in loaded
                 /\ regLast.ret.route.selector \in candidates
          ELSE IF candidates = {} THEN regLast.ret = NotFound
          ELSE regLast.ret = Ambiguous
       /\ \A rs \in Reorderings(routes) :
            findRouteBySelectorWildcard(buildRouteMaps(rs), s) = regLast.ret

\* C19 as stated: FindRouteBySelector never returns a route whose selector ends
\* in "/*", whatever the query and the loaded routes.
C19_NeverReturnsWildcard ==
  (regLast.op = "selector" /\ regLast.ret.kind = "ok")
    => ~IsWildcard(regLast.ret.route.selector)

\* C19 amended: FindRouteBySelector(s) returns a route loaded under the selector
\* s itself when there is one and the not-found error otherwise; it returns a
\* wildcard route only for a query that is that wildcard selector, never for a
\* query the wildcard's prefix matches.
C19_SelectorLookupIsExact ==
  regLast.op = "selector" =>
    IF \E i \in 1..Len(routes) : routes[i].selector = regLast.query
      THEN /\ regLast.ret.kind = "ok"
           /\ regLast.ret.route.selector = regLast.query
           /\ \E i \in 1..Len(routes) : routes[i] = regLast.ret.route
    ELSE regLast.ret = NotFound

\* a query one wildcard route matches by prefix, refused by the exact lookup
C19_Witness ==
  /\ regLast.op = "selector"
  /\ ~IsWildcard(regLast.query)
  /\ Cardinality(WildcardMatches(Config, regLast.query)) = 1
  /\ regLast.ret = NotFound

\* C20: a Connect called while the route is connected returns success and
\* changes nothing: the connection, the JetStream context, the stream, the
\* number of connections opened, the subscription and the configuration stay as
\* they were.
C20_ConnectIsIdempotent ==
  [][\A fail \in ConnectFails :
       (IsConnected(nc) /\ Connect(fail))
         => /\ lastCall'.op = "connect" /\ lastCall'.result = "ok"
            /\ UNCHANGED <<cfg, nc, js, stream, conns, jsUsed, sub, orphans>>]_vars

\* Connect answered on a route that still has its subscription on the first
\* connection it opened: the call found the route connected
C20_Witness ==
  /\ lastCall.op = "connect" /\ lastCall.result = "ok"
  /\ nc = "connected"
  /\ conns = 1
  /\ sub.active

\* ---- route: serialisation errors, Unsubscribe
\* the payloads toBytes returns an error for
Unserialisable == {m \in Messages : ~toBytes(m).ok}

\* C21: Publish, PublishWithSuffix and Request called with a payload toBytes
\* cannot serialise return the encode error without Connect and without a send:
\* the connection, the JetStream context, the stream, the number of connections
\* opened and the subscription stay as they were, and nothing went to the broker.
C21_EncodeErrorBeforeIO ==
  [][\A fail \in ConnectFails :
       (/\ lastCall'.op \in {"publish", "publishWithSuffix", "request"}
        /\ lastCall'.msg \in Unserialisable
        /\ \/ Publish(lastCall'.msg, fail)
           \/ PublishWithSuffix(lastCall'.msg, fail)
           \/ Request(lastCall'.msg, fail))
         => /\ lastCall'.result = "encode"
            /\ lastCall'.via = "none" /\ lastCall'.data = <<>>
            /\ UNCHANGED <<cfg, nc, js, stream, conns, jsUsed, sub, orphans, pend>>]_vars

\* an encode error returned by a route that has never opened a connection
C21_Witness ==
  /\ lastCall.op \in {"publish", "publishWithSuffix", "request"}
  /\ lastCall.result = "encode"
  /\ ~toBytes(lastCall.msg).ok
  /\ nc = "nil" /\ conns = 0

\* C22: Unsubscribe called on a route that has no live subscription (never
\* subscribed, or already unsubscribed) returns without error and changes nothing.
C22_UnsubscribeIsIdempotent ==
  [][\A fail \in BOOLEAN :
       (~sub.active /\ Unsubscribe(fail))
         => /\ lastCall'.op = "unsubscribe" /\ lastCall'.result = "ok"
            /\ UNCHANGED <<cfg, nc, js, stream, conns, jsUsed, sub, orphans>>]_vars

\* C23: once Unsubscribe has returned success the broker holds no subscription of
\* the route that still delivers to its callback: the subscription of r.sub is
\* ended and no earlier subscription of the route is left behind, whatever
\* Subscribe calls came before.
C23_UnsubscribeStopsDelivery ==
  (lastCall.op = "unsubscribe" /\ lastCall.result = "ok")
    => ~sub.active /\ OrphanCount = 0

\* ---- combine functions
\* C24: for two parts of one block, JoinCombine(a, b) and JoinCombine(b, a) map
\* every key field to the same value.
C24_JoinCommutesOnKeys ==
  joinLast.op = "join" =>
    \A i \in 1..Len(KeyDefinitions) :
      LET k == KeyDefinitions[i]
      IN /\ k \in DOMAIN joinLast.ab <=> k \in DOMAIN joinLast.ba
         /\ k \in DOMAIN joinLast.ab => joinLast.ab[k] = joinLast.ba[k]

\* ---- block store: the parts lists
\* how often the list of a source names a part
Occurrences(lists, src, p) == Cardinality({i \in 1..Len(lists[src]) : lists[src][i] = p})

\* the calls of AddData the store can take now, each with its outcome
AddCalls ==
  {[src |-> x[1], order |-> x[4], r |-> addData(Store, x[1], x[2], clock, x[3], x[4])] :
     x \in {y \in Sources \X Events \X Fails
                     \X UNION {RangeOrders(Sources \ {s}) : s \in Sources} :
              /\ y[4] \in RangeOrders(Sources \ {y[1]})
              /\ GetKeyValue(y[2]).ok
              /\ FreePartIds(Store) # {}}}

\* the lists of the block of key before the call (none when the call created it)
ListsBefore(key) ==
  IF key \in DOMAIN blocks THEN blocks[key].partsBySource ELSE [x \in Sources |-> <<>>]

\* C25: a successful AddData leaves in the block's lists the inbound part once,
\* under its source, and every other part as often as before, except the
\* entries of the other sources it dropped because the part had expired or had
\* reached blockPartMaxJoinCount; the number of parts of the block changes by
\* one minus the entries dropped.
C25_PartConservation ==
  \A c \in AddCalls :
    c.r.kind = "ok" =>
      LET before == ListsBefore(c.r.key)
          after == c.r.s.blocks[c.r.key].partsBySource
      IN \A src \in Sources, p \in DOMAIN c.r.s.parts :
           IF p = c.r.inbound
             THEN Occurrences(after, src, p) = (IF src = c.src THEN 1 ELSE 0)
             ELSE /\ Occurrences(after, src, p) <= Occurrences(before, src, p)
                  /\ Occurrences(after, src, p) < Occurrences(before, src, p)
                       => /\ src # c.src
                          /\ \/ parts[p].ExpireAt < clock
                             \/ c.r.s.parts[p].JoinCount >= blockPartMaxJoinCount

\* a store on which an AddData succeeds, combines the inbound part with a stored
\* part it keeps and drops another stored part of that source
C25_Witness ==
  \E c \in AddCalls :
    /\ c.r.kind = "ok"
    /\ c.r.calls # <<>>
    /\ \E src \in Sources \ {c.src} :
         /\ Len(c.r.s.blocks[c.r.key].partsBySource[src]) >= 1
         /\ Len(c.r.s.blocks[c.r.key].partsBySource[src])
              < Len(ListsBefore(c.r.key)[src])

\* C26: an AddData that returns a combine or callback error leaves every list of
\* the block naming each part at most once, and still naming every stored part
\* that was neither expired nor at blockPartMaxJoinCount when the call began.
C26_AbortKeepsLists ==
  \A c \in AddCalls :
    c.r.kind \in {"combine", "callback"} =>
      LET before == ListsBefore(c.r.key)
          after == c.r.s.blocks[c.r.key].partsBySource
      IN \A src \in Sources, p \in DOMAIN c.r.s.parts :
           /\ Occurrences(after, src, p) <= 1
           /\ (/\ p \in DOMAIN parts
               /\ Occurrences(before, src, p) >= 1
               /\ parts[p].ExpireAt >= clock
               /\ parts[p].JoinCount < blockPartMaxJoinCount)
                => Occurrences(after, src, p) >= 1

\* ---- local cache: items and heap
\* C27: items and itemsHeap agree: the entry of every key of items is in the heap
\* at the index it stores and is the only heap record of that key, and every
\* heap record is the entry items holds for its key.
C27_ItemsAndHeapAgree ==
  /\ \A key \in DOMAIN items :
       /\ entries[items[key]].index \in 0..(Len(itemsHeap) - 1)
       /\ itemsHeap[entries[items[key]].index + 1] = items[key]
       /\ Cardinality({i \in 1..Len(itemsHeap) : entries[itemsHeap[i]].key = key}) = 1
  /\ \A i \in 1..Len(itemsHeap) :
       /\ entries[itemsHeap[i]].key \in DOMAIN items
       /\ items[entries[itemsHeap[i]].key] = itemsHeap[i]

\* ---- block store: blocks and heap
\* C28: blocks and heap agree whenever no operation is under way: every block of
\* the map is in the heap at the position its heapIndex gives, and every heap
\* element is a block of the map.
C28_BlocksAndHeapAgree ==
  (/\ shutdownCh # "panic"
   /\ ops.addPc = "idle" /\ ops.getPc = "idle" /\ ops.exPc = "idle"
   /\ evPc \in {"idle", "waiting", "exited"})
  => /\ \A key \in DOMAIN blocks :
          /\ blocks[key].heapIndex \in 0..(Len(blockHeap) - 1)
          /\ blockHeap[blocks[key].heapIndex + 1] = key
     /\ \A i \in 1..Len(blockHeap) : blockHeap[i] \in DOMAIN blocks
     /\ Len(blockHeap) = Cardinality(DOMAIN blocks)

\* ---- local cache: GetCreateOrUpdate against removal
\* C29: GetCreateOrUpdate completes without fault when the entry it read under
\* the read lock has been removed before it takes the write lock: no call ends
\* in the nil dereference of update, and a call whose fetchFunc returned a value
\* returns that value.
C29_SafeAgainstRemoval ==
  \A t \in GcThreads : gcRet[t].kind # "panic"

\* ---- cached backend: the key registry against the cache
\* C30: in every interleaving of wrapper reads with InvalidateMethodPrefix, every
\* key the cache holds for a call of method M with first argument a is in the
\* key set registered under "M:a", so InvalidateMethodPrefix(M, a) reaches it.
C30_RegistryCoversCache ==
  \A call \in PrefixCalls :
    (Len(call.args) > 0 /\ Cached(items, call))
      => /\ RegistryKeyOf(call) \in DOMAIN keyRegistry
         /\ CacheKeyOf(call) \in keyRegistry[RegistryKeyOf(call)]

\* ---- block store: the block key
\* C31: GetKeyValue gives two events the same block key only if they hold the
\* same value in every key field: two parts correlated in one block agree on
\* every key field, values of different types with one printed form included.
C31_BlockKeyInjective ==
  joinLast.op = "join" =>
    \A i \in 1..Len(KeyDefinitions) :
      joinLast.a[KeyDefinitions[i]] = joinLast.b[KeyDefinitions[i]]

\* ---- block store: the parts AddData combines
\* C32: AddData never hands combineFunc and the callback a stored part for which
\* now >= ExpireAt or JoinCount >= blockPartMaxJoinCount, and every such part
\* of the other sources is gone from its list when the call returns.
C32_DeadPartsSkippedAndDropped ==
  \A c \in AddCalls :
    c.r.kind # "keyerr" =>
      /\ \A i \in 1..Len(c.r.calls) :
           /\ clock < parts[c.r.calls[i]].ExpireAt
           /\ parts[c.r.calls[i]].JoinCount < blockPartMaxJoinCount
      /\ \A src \in Sources \ {c.src}, p \in DOMAIN parts :
           (/\ Occurrences(ListsBefore(c.r.key), src, p) >= 1
            /\ \/ clock >= parts[p].ExpireAt
               \/ parts[p].JoinCount >= blockPartMaxJoinCount)
             => Occurrences(c.r.s.blocks[c.r.key].partsBySource, src, p) = 0

\* ---- block store: the order of the parts
\* a is b with some of its elements left out
RECURSIVE IsSubseq(_, _)
IsSubseq(a, b) ==
  IF a = <<>> THEN TRUE
  ELSE IF b = <<>> THEN FALSE
  ELSE IF Head(a) = Head(b) THEN IsSubseq(Tail(a), Tail(b))
  ELSE IsSubseq(a, Tail(b))

\* the callbacks of a call that went to the stored parts of source src
CallsOn(c, src) ==
  LET before == ListsBefore(c.r.key)[src]
      OfSrc(p) == \E i \in 1..Len(before) : before[i] = p
      RECURSIVE Pick(_)
      Pick(s) == IF s = <<>> THEN <<>>
                 ELSE IF OfSrc(Head(s)) THEN <<Head(s)>> \o Pick(Tail(s))
                 ELSE Pick(Tail(s))
  IN Pick(c.r.calls)

\* the parts of a list the loop of AddData keeps when it runs now
Survivors(list) ==
  SelectSeq(list, LAMBDA p : /\ p \in DOMAIN parts
                             /\ ~(parts[p].ExpireAt < clock)
                             /\ parts[p].JoinCount < blockPartMaxJoinCount)

\* the parts of s are in the order of their creation (ExpireAt is the time of
\* creation plus blockPartMaxAge)
ByInsertion(s) ==
  \A i, j \in 1..Len(s) : i <= j => parts[s[i]].ExpireAt <= parts[s[j]].ExpireAt

\* C33 (claim): within one AddData the callbacks against the stored parts of one
\* source come in the order in which those parts were inserted (a part is
\* appended at the end of the list of its source, and the callbacks follow the
\* list), and what compaction leaves of a list is in the order it had: every
\* list holds the parts AddData would combine in the order of their insertion.
C33_InsertionOrder ==
  /\ \A k \in DOMAIN blocks, src \in Sources :
       ByInsertion(Dedupe(Survivors(blocks[k].partsBySource[src]), {}))
  /\ \A c \in AddCalls :
       c.r.kind # "keyerr" =>
         LET before == ListsBefore(c.r.key)
             after == c.r.s.blocks[c.r.key].partsBySource
         IN /\ after[c.src] = Append(before[c.src], c.r.inbound)
            /\ \A src \in Sources \ {c.src} :
                 /\ ByInsertion(CallsOn(c, src))
                 /\ IsSubseq(CallsOn(c, src), before[src])
                 /\ c.r.kind = "ok" => IsSubseq(after[src], before[src])
                 /\ IsSubseq(Dedupe(Survivors(after[src]), {}), Dedupe(before[src], {}))

\* ---- block store: the mutex
\* C34: under concurrent AddData callers and the eviction loop, at most one
\* AddData is between its Lock and its Unlock, so at most one combine/callback is
\* in progress at any time, and no pass of the eviction loop changes the store
\* while an AddData is in progress.
C34_CallbacksSerialised ==
  /\ [](Cardinality({t \in MuCallers : addPc[t] # "idle"}) <= 1)
  /\ [][EvictLocked => \A t \in MuCallers : addPc[t] = "idle"]_vars

\* a caller is in its callback while the other and the eviction loop wait
C34_Witness ==
  /\ \E t \in MuCallers : addPc[t] = "callback" /\ mu = t
  /\ evPc = "waiting"
  /\ Cardinality(DOMAIN blocks) > blockCountSoftLimit

\* ---- local cache: what a cleanup tick leaves
\* C35: when the cleanup tick that read the time t completes, neither items nor
\* the heap holds an entry with evictAt <= t, whatever Set, Delete and the
\* other operations did before.
C35_CleanupRemovesExpired ==
  [][(cleanPc # "idle" /\ cleanPc' = "idle") =>
       /\ \A k \in DOMAIN items' : entries'[items'[k]].evictAt > cleanNow
       /\ \A i \in 1..Len(itemsHeap') : entries'[itemsHeap'[i]].evictAt > cleanNow]_vars

\* ---- subject channels: the expiry of an entry in use
\* C36: a message for a subject whose channel entry exists and has not expired
\* sets the expiry of that entry to now + channelTTL.
C36_ChannelRefreshedOnMessage ==
  [][\A t \in Fetchers :
       (/\ fetcher[t] = "hit"
        /\ ItemOf(Cache, Subject) = gcEntry[t]
        /\ clock < entries[gcEntry[t]].evictAt
        /\ ChannelReturn(t))
         => (/\ Subject \in DOMAIN items'
             /\ entries'[items'[Subject]].evictAt = clock + channelTTL)]_vars

\* ---- pull subscription: the goroutine after Unsubscribe
\* C37: once Unsubscribe has succeeded on a pull subscription, the goroutine
\* subscribePull started for it eventually exits.
C37_FetcherExitsOnUnsubscribe ==
  \A t \in Fetchers :
    (/\ lastCall.op = "unsubscribe" /\ lastCall.result = "ok"
     /\ cfg.mode = "pull"
     /\ fetchSub[t].st = "current"
     /\ fetcher[t] \notin {"none", "exited"})
      ~> (fetcher[t] = "exited")

\* ---- routing table: what a wildcard selector covers
\* s is the prefix of the wildcard selector key, then "/", then at least one
\* more character
ExtendsAtSegment(key, s) ==
  LET P == WildcardPrefix(key)
  IN /\ Len(s) > Len(P) + 1
     /\ SubSeq(s, 1, Len(P)) = P
     /\ s[Len(P) + 1] = "/"

\* C38: a wildcard selector P/* is a candidate for the query s only when s is P,
\* "/" and a non-empty rest: FindRouteBySelectorWildcard returns a wildcard
\* route for a query it is not registered under only then, and reports an
\* ambiguity only when several wildcard selectors cover s in that way.
C38_WildcardAtSegmentBoundary ==
  regLast.op = "wildcard" =>
    LET s == regLast.query
        covering == {key \in DOMAIN selectorMap : IsWildcard(key) /\ ExtendsAtSegment(key, s)}
    IN /\ (/\ regLast.ret.kind = "ok"
            /\ regLast.ret.route.selector # s)
           => regLast.ret.route.selector \in covering
       /\ regLast.ret = Ambiguous => Cardinality(covering) > 1

\* ---- block store: how far compaction reaches
\* C39: after an AddData that returns nil, no list of the block, the list of
\* the inbound source included, still names a part that was expired or had
\* reached blockPartMaxJoinCount when the call began.
C39_CompactionCoversBlock ==
  \A c \in AddCalls :
    c.r.kind = "ok" =>
      \A src \in Sources, p \in DOMAIN parts :
        (/\ Occurrences(ListsBefore(c.r.key), src, p) >= 1
         /\ \/ parts[p].ExpireAt < clock
            \/ parts[p].JoinCount >= blockPartMaxJoinCount)
          => Occurrences(c.r.s.blocks[c.r.key].partsBySource, src, p) = 0

\* ---- route: concurrent first use
\* C40: under concurrent first use of one Route at most one broker connection
\* is established, and a caller whose Connect has returned nil goes on only
\* with the connection set and, on a durable config, with the JetStream
\* context it calls set.
C40_FirstUseIsSerialised ==
  /\ conns <= 1
  /\ \A t \in UseCallers :
       usePc[t] = "connected" =>
         /\ nc = "connected"
         /\ (JetStreamEnabled(cfg) /\ useVia(cfg, useOp[t]) = "js") => js = "ready"

====
